---- MODULE Spec2Model ----
(***************************************************************************)
(* A model of the Bluestar economy simulator: the coin ledger              *)
(* (simulation/coin_economy.py), progression and gating                    *)
(* (simulation/progression.py), the streak transition                      *)
(* (simulation/drop_algorithm.py), the greedy upgrade engine               *)
(* (simulation/upgrade_engine.py) and the daily loop of run_simulation     *)
(* (simulation/orchestrator.py).                                           *)
(*                                                                         *)
(* Python lists are sequences; a Python index k is the index k+1 here, so  *)
(* table[card.level - 1] is table[card.level].  A card id f"gold_{i}" is   *)
(* the pair <<"gold", i>>.  Floats that are quotients of integers are      *)
(* kept as exact fractions [num, den] and compared by cross-multiplying;   *)
(* for the collections of Configs (at most two cards per shared category,  *)
(* levels at most 5) the IEEE-754 double computation of the average shared *)
(* level compares with every integer threshold exactly as the fraction.    *)
(* The rarity decision (decide_rarity) is computed in IEEE-754 doubles,    *)
(* correctly rounded, since its claims turn on rounding and ties.          *)
(***************************************************************************)
EXTENDS Integers, Sequences, FiniteSets, TLC

VARIABLES
    config,          \* SimConfig of the run (read-only input)
    pc,              \* position of run_simulation
    game_state,      \* GameState: day, cards, coins, total_bluestars, streak_state
    coin_ledger,     \* CoinLedger: balance, transactions
    streak_state,    \* run_simulation's local streak_state
    day_pack_counts, \* run_simulation's local day_pack_counts
    card_pulls,      \* number of pull intents of the current day
    pull_index,      \* run_simulation's local pull_index
    pull,            \* locals of the current pull: card, dupes, coins, updated_streak, ...
    events,          \* attempt_upgrades' local events list
    upgrade_events,  \* run_simulation's local upgrade_events (of the day)
    pull_logger,     \* PullLogger.events
    daily_snapshots, \* run_simulation's local daily_snapshots
    ledger_call,     \* ledger API harness: the last call and what it returned
    streak_call,     \* update_rarity_streak harness: input, chosen, output
    gate_call,       \* get_max_unique_level harness: the average and the result
    rarity_call,     \* decide_rarity harness: the random source and the result
    run_heap,        \* interleaved runs: the objects the calls have created
    run_frames,      \* interleaved runs: the locals of each run_simulation call
    run_draws,       \* interleaved runs: the pull outcomes each call is dealt
    url_call         \* shareable-config harness: the last call and its outcome

vars == <<config, pc, game_state, coin_ledger, streak_state, day_pack_counts,
          card_pulls, pull_index, pull, events, upgrade_events, pull_logger,
          daily_snapshots, ledger_call, streak_call, gate_call, rarity_call,
          run_heap, run_frames, run_draws, url_call>>

\* the variables of the interleaved runs, unused elsewhere
runsVars == <<run_heap, run_frames, run_draws>>

----------------------------------------------------------------------------
(* Bounds of the model *)

\* most pull intents process_packs_for_day returns over one run
MaxPulls == 3
\* largest amount and longest transaction list of the ledger API harness
MaxAmount == 2
MaxTransactions == 2
\* largest streak counter of the update_rarity_streak harness
MaxStreak == 4

----------------------------------------------------------------------------
(* Data model *)

GOLD_SHARED == "GOLD_SHARED"
BLUE_SHARED == "BLUE_SHARED"
UNIQUE == "UNIQUE"
CardCategory == {GOLD_SHARED, BLUE_SHARED, UNIQUE}

Card(id, category) ==
    [id |-> id, category |-> category, level |-> 1, duplicates |-> 0]

ZeroStreak ==
    [streak_shared |-> 0, streak_unique |-> 0,
     streak_per_color |-> <<>>, streak_per_hero |-> <<>>]

Min(a, b) == IF a <= b THEN a ELSE b

\* K(e), with e computed before K is entered rather than where K first uses
\* it: TLC computes the elements of a set where the set is written
Then(e, K(_)) == CHOOSE y \in {K(x) : x \in {e}} : TRUE

\* a/b as an exact fraction; LessEq(x, f) is x <= f for an integer x
Frac(n, d) == [num |-> n, den |-> d]
FracAdd(f, g) == Frac(f.num * g.den + g.num * f.den, f.den * g.den)
FracDiv(f, k) == Frac(f.num, f.den * k)
FracMul(f, k) == Frac(f.num * k, f.den)
LessEq(x, f) == x * f.den <= f.num

RECURSIVE SumSeq(_)
SumSeq(s) == IF s = <<>> THEN 0 ELSE s[1] + SumSeq(Tail(s))

\* [c for c in cards if c.category == category], as indices into cards
Filter(cards, category) ==
    SelectSeq([n \in 1..Len(cards) |-> n], LAMBDA n : cards[n].category = category)

----------------------------------------------------------------------------
(* Configurations *)

\* an entry of daily_pack_schedule: pack name -> count
PackCounts(basic, premium) == [basic |-> basic, premium |-> premium]

Table(d, c, b) ==
    [duplicate_costs |-> d, coin_costs |-> c, bluestar_rewards |-> b]

\* Every table has one entry more than the category's maximum level needs.
\* upgrades cost duplicates and coins; the gate opens at average shared level 2
ConfigPaid ==
    [num_gold_cards |-> 2, num_blue_cards |-> 1,
     max_shared_level |-> 3, max_unique_level |-> 3,
     initial_coins |-> 0, initial_bluestars |-> 0, num_days |-> 2,
     daily_pack_schedule |-> <<PackCounts(1, 0), PackCounts(0, 2)>>,
     upgrade_tables |->
        [c \in CardCategory |->
            IF c = UNIQUE THEN Table(<<1, 1, 1>>, <<1, 2, 1>>, <<5, 7, 9>>)
            ELSE Table(<<1, 2, 1>>, <<1, 1, 1>>, <<1, 2, 3>>)],
     progression_mapping |->
        [shared_levels |-> <<1, 2>>, unique_levels |-> <<2, 3>>],
     unique_unlock_schedule |-> (1 :> 1 @@ 2 :> 1),
     duplicate_ranges |->
        [c \in CardCategory |-> IF c = GOLD_SHARED THEN {1, 2} ELSE {1}],
     coin_per_duplicate |->
        [c \in CardCategory |->
            IF c = UNIQUE THEN <<2, 1, 1>>
            ELSE IF c = GOLD_SHARED THEN <<1, 0, 1>> ELSE <<0, 0, 0>>]]

\* zero-cost tables: every card is eligible as soon as its level and gate allow
ConfigFree ==
    [num_gold_cards |-> 2, num_blue_cards |-> 1,
     max_shared_level |-> 3, max_unique_level |-> 3,
     initial_coins |-> 0, initial_bluestars |-> 2, num_days |-> 2,
     daily_pack_schedule |-> <<>>,
     upgrade_tables |->
        [c \in CardCategory |-> Table(<<0, 0, 0>>, <<0, 0, 0>>, <<1, 1, 1>>)],
     progression_mapping |->
        [shared_levels |-> <<2, 3>>, unique_levels |-> <<1, 3>>],
     unique_unlock_schedule |-> (1 :> 1 @@ 2 :> 1),
     duplicate_ranges |-> [c \in CardCategory |-> {1}],
     coin_per_duplicate |-> [c \in CardCategory |-> <<0, 1, 0>>]]

\* duplicates are the scarce resource, coins are plentiful, maxima are low
ConfigDupes ==
    [num_gold_cards |-> 1, num_blue_cards |-> 2,
     max_shared_level |-> 2, max_unique_level |-> 2,
     initial_coins |-> 3, initial_bluestars |-> 0, num_days |-> 2,
     daily_pack_schedule |-> <<PackCounts(1, 1)>>,
     upgrade_tables |->
        [c \in CardCategory |->
            IF c = UNIQUE THEN Table(<<1, 1>>, <<2, 2>>, <<3, 4>>)
            ELSE Table(<<2, 2>>, <<1, 0>>, <<1, 2>>)],
     progression_mapping |->
        [shared_levels |-> <<1, 2>>, unique_levels |-> <<1, 2>>],
     unique_unlock_schedule |-> (1 :> 2),
     duplicate_ranges |->
        [c \in CardCategory |-> IF c = UNIQUE THEN {1} ELSE {1, 2}],
     coin_per_duplicate |-> [c \in CardCategory |-> <<1, 1>>]]

\* num_days = 0: the day loop has no iteration
ConfigNoDays == [ConfigPaid EXCEPT !.num_days = 0]

\* three days
ConfigThreeDays ==
    [ConfigFree EXCEPT !.num_days = 3,
                       !.daily_pack_schedule = <<PackCounts(2, 0), PackCounts(1, 1)>>]

Configs == {ConfigPaid, ConfigFree, ConfigDupes, ConfigNoDays, ConfigThreeDays}

----------------------------------------------------------------------------
(* Progression and gating: simulation/progression.py *)

RECURSIVE PrefixLenStrict(_, _)
\* the loop with "shared_level < avg_shared_level" for "<="
PrefixLenStrict(shared_levels, avg) ==
    IF shared_levels = <<>> THEN 0
    ELSE IF shared_levels[1] * avg.den < avg.num
         THEN 1 + PrefixLenStrict(Tail(shared_levels), avg)
         ELSE 0

RECURSIVE PrefixLen(_, _)
\* how many leading entries of shared_levels are <= avg (the loop breaks at the
\* first larger one)
PrefixLen(shared_levels, avg) ==
    IF shared_levels = <<>> THEN 0
    ELSE IF LessEq(shared_levels[1], avg)
         THEN 1 + PrefixLen(Tail(shared_levels), avg)
         ELSE 0

\* list.index(v): the first position holding v
IndexOf(s, v) == CHOOSE i \in 1..Len(s) : s[i] = v /\ \A j \in 1..(i - 1) : s[j] # v

get_max_unique_level(avg_shared_level, mapping) ==
    IF mapping.shared_levels = <<>> \/ mapping.unique_levels = <<>> THEN 1
    ELSE Then(avg_shared_level, LAMBDA avg :
         Then(PrefixLen(mapping.shared_levels, avg), LAMBDA k :
              IF k = 0 THEN mapping.unique_levels[1]
              ELSE mapping.unique_levels[IndexOf(mapping.shared_levels,
                                                 mapping.shared_levels[k])]))

compute_progression_score(card) ==
    IF card.category = UNIQUE
    THEN Frac(Min(card.level, 10), 10)
    ELSE Frac(Min(card.level, 100), 100)

compute_category_progression(cards, category) ==
    Then(Filter(cards, category), LAMBDA category_cards :
         IF category_cards = <<>> THEN Frac(0, 1)
         ELSE Then([k \in 1..Len(category_cards) |->
                       compute_progression_score(cards[category_cards[k]])],
                   LAMBDA scores :
                       Frac(SumSeq([k \in 1..Len(scores) |-> scores[k].num]),
                            scores[1].den * Len(scores))))

\* raised: the ValueError of a call on a non-unique card
can_upgrade_unique(card, avg_shared_level, mapping) ==
    IF card.category # UNIQUE
    THEN [raised |-> TRUE, value |-> FALSE]
    ELSE Then(get_max_unique_level(avg_shared_level, mapping), LAMBDA max_allowed :
              [raised |-> FALSE, value |-> card.level < max_allowed])

RECURSIVE SumUnlocks(_, _, _)
SumUnlocks(day, schedule, keys) ==
    IF keys = {} THEN 0
    ELSE LET day_key == CHOOSE k \in keys : TRUE
         IN (IF day_key <= day THEN schedule[day_key] ELSE 0)
            + SumUnlocks(day, schedule, keys \ {day_key})

get_unlocked_unique_count(day, schedule) ==
    SumUnlocks(day, schedule, DOMAIN schedule)

----------------------------------------------------------------------------
(* Coin ledger: simulation/coin_economy.py *)

CoinTransaction(amount, source, card_id, day) ==
    [amount |-> amount, source |-> source, card_id |-> card_id, day |-> day]

\* add_income that raises the balance and records nothing
add_income_unrecorded(ledger, amount, card_id, day) ==
    [balance |-> ledger.balance + amount,
     transactions |-> ledger.transactions]

add_income(ledger, amount, card_id, day) ==
    [balance |-> ledger.balance + amount,
     transactions |-> Append(ledger.transactions,
                             CoinTransaction(amount, "income", card_id, day))]

\* spend with the funds test off by one: a balance equal to the amount is rejected
spend_rejecting_exact_balance(ledger, amount, card_id, day) ==
    IF ledger.balance <= amount
    THEN [success |-> FALSE, ledger |-> ledger]
    ELSE [success |-> TRUE,
          ledger |-> [balance |-> ledger.balance - amount,
                      transactions |-> Append(ledger.transactions,
                          CoinTransaction(amount, "spend", card_id, day))]]

\* spend that records no transaction for an amount of 0
spend_recording_positive_amounts(ledger, amount, card_id, day) ==
    IF ledger.balance < amount
    THEN [success |-> FALSE, ledger |-> ledger]
    ELSE IF amount = 0
    THEN [success |-> TRUE, ledger |-> ledger]
    ELSE [success |-> TRUE,
          ledger |-> [balance |-> ledger.balance - amount,
                      transactions |-> Append(ledger.transactions,
                          CoinTransaction(amount, "spend", card_id, day))]]

\* the returned flag and the ledger after the call
spend(ledger, amount, card_id, day) ==
    IF ledger.balance < amount
    THEN [success |-> FALSE, ledger |-> ledger]
    ELSE [success |-> TRUE,
          ledger |-> [balance |-> ledger.balance - amount,
                      transactions |-> Append(ledger.transactions,
                          CoinTransaction(amount, "spend", card_id, day))]]

\* daily_summary without the filter on the day: the sums of the whole ledger
daily_summary_of_all_days(ledger, day) ==
    LET daily_transactions == ledger.transactions
        amount_of(source) ==
            SumSeq([k \in 1..Len(daily_transactions) |->
                       IF daily_transactions[k].source = source
                       THEN daily_transactions[k].amount ELSE 0])
    IN [total_income |-> amount_of("income"),
        total_spent |-> amount_of("spend"),
        balance |-> ledger.balance]

daily_summary(ledger, day) ==
    LET t == ledger.transactions
        amt(source) == SumSeq([k \in 1..Len(t) |->
                          IF t[k].day = day /\ t[k].source = source
                          THEN t[k].amount ELSE 0])
    IN [total_income |-> amt("income"), total_spent |-> amt("spend"),
        balance |-> ledger.balance]

MaxLevelOf(card, cfg) ==
    IF card.category = UNIQUE THEN cfg.max_unique_level ELSE cfg.max_shared_level

compute_coin_income(card, duplicates_received, cfg) ==
    LET is_maxed == card.level >= MaxLevelOf(card, cfg)
        coins_per_dupe_table == cfg.coin_per_duplicate[card.category]
    IN IF coins_per_dupe_table = <<>> THEN 0
       ELSE IF is_maxed THEN coins_per_dupe_table[1]
       ELSE coins_per_dupe_table[card.level] * duplicates_received

----------------------------------------------------------------------------
(* Streak transition: simulation/drop_algorithm.py *)

\* update_rarity_streak taking only GOLD_SHARED for shared
update_rarity_streak_gold_only(streak, chosen) ==
    IF chosen = GOLD_SHARED
    THEN [streak EXCEPT !.streak_shared = @ + 1, !.streak_unique = 0]
    ELSE [streak EXCEPT !.streak_unique = @ + 1, !.streak_shared = 0]

update_rarity_streak(streak, chosen) ==
    LET new_state == [streak_shared |-> streak.streak_shared,
                      streak_unique |-> streak.streak_unique,
                      streak_per_color |-> streak.streak_per_color,
                      streak_per_hero |-> streak.streak_per_hero]
    IN IF chosen \in {GOLD_SHARED, BLUE_SHARED}
       THEN [new_state EXCEPT !.streak_shared = @ + 1, !.streak_unique = 0]
       ELSE [new_state EXCEPT !.streak_unique = @ + 1, !.streak_shared = 0]

\* The same function on Python objects.  A heap is a sequence of objects and
\* a reference is an index into it; a StreakState object holds its two
\* counters and references to its two dicts.

\* StreakState(...) built from a value: two dicts and the object itself
NewStreakState(heap, streak) ==
    LET dicts == heap \o <<streak.streak_per_color, streak.streak_per_hero>>
    IN [heap |-> Append(dicts, [streak_shared |-> streak.streak_shared,
                                streak_unique |-> streak.streak_unique,
                                streak_per_color |-> Len(heap) + 1,
                                streak_per_hero |-> Len(heap) + 2]),
        returned |-> Len(heap) + 3]

\* the value a StreakState object has in a heap
StreakStateValue(heap, state_ref) ==
    [streak_shared |-> heap[state_ref].streak_shared,
     streak_unique |-> heap[state_ref].streak_unique,
     streak_per_color |-> heap[heap[state_ref].streak_per_color],
     streak_per_hero |-> heap[heap[state_ref].streak_per_hero]]

\* update_rarity_streak whose new state keeps the dicts of its input
update_rarity_streak_object_without_copy(heap, state_ref, chosen) ==
    LET new_state == Len(heap) + 1
        constructed == Append(heap, heap[state_ref])
    IN [heap |-> [constructed EXCEPT ![new_state] =
                      IF chosen \in {GOLD_SHARED, BLUE_SHARED}
                      THEN [@ EXCEPT !.streak_shared = @ + 1, !.streak_unique = 0]
                      ELSE [@ EXCEPT !.streak_unique = @ + 1, !.streak_shared = 0]],
        returned |-> new_state]

\* update_rarity_streak(streak_state, chosen) with streak_state a reference:
\* the heap after the call and the reference it returns
update_rarity_streak_object(heap, state_ref, chosen) ==
    LET copies == heap \o <<heap[heap[state_ref].streak_per_color],
                            heap[heap[state_ref].streak_per_hero]>>
        new_state == Len(heap) + 3
        constructed ==
            Append(copies, [streak_shared |-> heap[state_ref].streak_shared,
                            streak_unique |-> heap[state_ref].streak_unique,
                            streak_per_color |-> Len(heap) + 1,
                            streak_per_hero |-> Len(heap) + 2])
    IN [heap |-> [constructed EXCEPT ![new_state] =
                      IF chosen \in {GOLD_SHARED, BLUE_SHARED}
                      THEN [@ EXCEPT !.streak_shared = @ + 1, !.streak_unique = 0]
                      ELSE [@ EXCEPT !.streak_unique = @ + 1, !.streak_shared = 0]],
        returned |-> new_state]

----------------------------------------------------------------------------
(* Python floats: IEEE 754 binary64 with round-to-nearest-even.  A float   *)
(* >= 0 is [m, e] with value m * 2^e, m a natural number written in limbs  *)
(* (least significant first), odd unless the value is 0.                   *)

Base == 2^15
SignificandBits == 53
MinExponent == -1074

LimbAt(a, i) == IF i <= Len(a) THEN a[i] ELSE 0

RECURSIVE BigStrip(_)
\* without the zero limbs at the most significant end
BigStrip(a) ==
    IF a = <<>> THEN <<>>
    ELSE IF a[Len(a)] = 0 THEN BigStrip(SubSeq(a, 1, Len(a) - 1)) ELSE a

RECURSIVE BigAddC(_, _, _, _)
\* a + b + carry from limb i on
BigAddC(a, b, i, carry) ==
    IF i > Len(a) /\ i > Len(b) THEN (IF carry = 0 THEN <<>> ELSE <<carry>>)
    ELSE <<(LimbAt(a, i) + LimbAt(b, i) + carry) % Base>>
         \o BigAddC(a, b, i + 1, (LimbAt(a, i) + LimbAt(b, i) + carry) \div Base)

BigAdd(a, b) == BigAddC(a, b, 1, 0)

RECURSIVE BigSubB(_, _, _, _)
\* a - b - borrow from limb i on, for a >= b
BigSubB(a, b, i, borrow) ==
    IF i > Len(a) THEN <<>>
    ELSE <<(a[i] - LimbAt(b, i) - borrow) % Base>>
         \o BigSubB(a, b, i + 1, IF a[i] - LimbAt(b, i) - borrow < 0 THEN 1 ELSE 0)

\* a - b for a >= b
BigSub(a, b) == BigStrip(BigSubB(a, b, 1, 0))

RECURSIVE BigLessFrom(_, _, _)
\* a < b for two numbers of k limbs each, compared from the top
BigLessFrom(a, b, k) ==
    IF k = 0 THEN FALSE
    ELSE IF a[k] # b[k] THEN a[k] < b[k] ELSE BigLessFrom(a, b, k - 1)

BigLess(a, b) ==
    IF Len(a) # Len(b) THEN Len(a) < Len(b) ELSE BigLessFrom(a, b, Len(a))

RECURSIVE BigMulLimbC(_, _, _, _)
\* a * d + carry from limb i on, for one limb d
BigMulLimbC(a, d, i, carry) ==
    IF i > Len(a) THEN (IF carry = 0 THEN <<>> ELSE <<carry>>)
    ELSE <<(a[i] * d + carry) % Base>>
         \o BigMulLimbC(a, d, i + 1, (a[i] * d + carry) \div Base)

BigMulLimb(a, d, carry) == BigStrip(BigMulLimbC(a, d, 1, carry))

RECURSIVE BigMulFrom(_, _, _, _)
\* acc plus a times the limbs of b from limb j on, each at its place
BigMulFrom(a, b, j, acc) ==
    IF j > Len(b) THEN acc
    ELSE Then(BigAdd(acc, [k \in 1..(j - 1) |-> 0] \o BigMulLimb(a, b[j], 0)),
              LAMBDA sum : BigMulFrom(a, b, j + 1, sum))

BigMul(a, b) == BigStrip(BigMulFrom(a, b, 1, <<>>))

\* a * 2^n
BigShl(a, n) ==
    IF a = <<>> THEN <<>>
    ELSE [k \in 1..(n \div 15) |-> 0] \o BigMulLimb(a, 2^(n % 15), 0)

\* a \div 2^n
BigShr(a, n) ==
    LET whole == n \div 15
        low == 2^(n % 15)
    IN BigStrip([i \in 1..(Len(a) - whole) |->
                    a[i + whole] \div low
                    + (LimbAt(a, i + whole + 1) % low) * (Base \div low)])

RECURSIVE IntBitLen(_)
IntBitLen(n) == IF n = 0 THEN 0 ELSE 1 + IntBitLen(n \div 2)

BigBitLen(a) == IF a = <<>> THEN 0 ELSE 15 * (Len(a) - 1) + IntBitLen(a[Len(a)])

BigIsOdd(a) == a # <<>> /\ a[1] % 2 = 1

RECURSIVE BigTrailingZeros(_)
\* for a # 0: how many times 2 divides a
BigTrailingZeros(a) ==
    IF a[1] = 0 THEN 15 + BigTrailingZeros(Tail(a))
    ELSE IF a[1] % 2 = 1 THEN 0
    ELSE 1 + BigTrailingZeros(<<a[1] \div 2>>)

RECURSIVE QuotientLimb(_, _, _, _)
\* the largest t in lo..hi with t * d <= r, where lo * d <= r
QuotientLimb(r, d, lo, hi) ==
    IF lo >= hi THEN lo
    ELSE IF BigLess(r, BigMulLimb(d, (lo + hi + 1) \div 2, 0))
         THEN QuotientLimb(r, d, lo, (lo + hi + 1) \div 2 - 1)
         ELSE QuotientLimb(r, d, (lo + hi + 1) \div 2, hi)

\* r \div d for r < d * Base: the two top limbs of r against the top limb of
\* d bound the quotient from both sides
BigDivLimb(r, d) ==
    LET top == LimbAt(r, Len(d) + 1) * Base + LimbAt(r, Len(d))
    IN QuotientLimb(r, d, top \div (d[Len(d)] + 1),
                    Min(Base - 1, (top + 1) \div d[Len(d)]))

\* <<t, r - t * d>> for t = r \div d
BigDivStep(r, d) ==
    Then(BigDivLimb(r, d), LAMBDA t : <<t, BigSub(r, BigMulLimb(d, t, 0))>>)

RECURSIVE BigDivLimbs(_, _, _, _, _)
\* long division of the lowest i limbs of n by d # 0, continuing from
\* quotient q and remainder r < d
BigDivLimbs(n, d, i, q, r) ==
    IF i = 0 THEN [q |-> BigStrip(q), r |-> r]
    ELSE IF r = <<>> /\ n[i] = 0 THEN BigDivLimbs(n, d, i - 1, <<0>> \o q, <<>>)
    ELSE Then(BigDivStep(<<n[i]>> \o r, d), LAMBDA tr :
              BigDivLimbs(n, d, i - 1, <<tr[1]>> \o q, tr[2]))

\* [q, r] with n = q * d + r and r < d
BigDivMod(n, d) == BigDivLimbs(n, d, Len(n), <<>>, <<>>)

RECURSIVE BigFromInt(_)
BigFromInt(n) == IF n = 0 THEN <<>> ELSE <<n % Base>> \o BigFromInt(n \div Base)

FloatZero == [m |-> <<>>, e |-> 0]

\* m * 2^e with m made odd
Canon(m, e) ==
    IF m = <<>> THEN FloatZero
    ELSE [m |-> BigShr(m, BigTrailingZeros(m)), e |-> e + BigTrailingZeros(m)]

\* the float nearest to m * 2^e, a tie going to the even significand; results
\* below 2^-1022 are subnormal
Round(m, e) ==
    IF m = <<>> THEN FloatZero
    ELSE LET q == IF e + BigBitLen(m) - SignificandBits >= MinExponent
                  THEN e + BigBitLen(m) - SignificandBits ELSE MinExponent
             drop == q - e
             Nearest(kept, rest) ==
                 LET half == BigIsOdd(rest)
                     sticky == BigShl(rest, drop - 1) # m
                     up == half /\ (sticky \/ BigIsOdd(kept))
                 IN Canon(IF up THEN BigAdd(kept, <<1>>) ELSE kept, q)
         IN IF drop <= 0 THEN Canon(m, e)
            ELSE Nearest(BigShr(m, drop), BigShr(m, drop - 1))

\* float(n) for an int n >= 0
FromInt(n) == Round(BigFromInt(n), 0)

\* x + y
FAdd(x, y) ==
    IF x.m = <<>> THEN y
    ELSE IF y.m = <<>> THEN x
    ELSE LET e0 == Min(x.e, y.e)
         IN Round(BigAdd(BigShl(x.m, x.e - e0), BigShl(y.m, y.e - e0)), e0)

\* x < y
FLess(x, y) ==
    IF x.m = <<>> \/ y.m = <<>> THEN y.m # <<>>
    ELSE LET e0 == Min(x.e, y.e)
         IN BigLess(BigShl(x.m, x.e - e0), BigShl(y.m, y.e - e0))

\* x - y for x >= y
FSub(x, y) ==
    IF x = y THEN FloatZero
    ELSE IF y.m = <<>> THEN x
    ELSE LET e0 == Min(x.e, y.e)
         IN Round(BigSub(BigShl(x.m, x.e - e0), BigShl(y.m, y.e - e0)), e0)

\* x * y
FMul(x, y) ==
    IF x.m = <<>> \/ y.m = <<>> THEN FloatZero
    ELSE Round(BigMul(x.m, y.m), x.e + y.e)

\* x / y for y # 0: 56 or more quotient bits and one bit for the remainder,
\* with y shifted to fill its top limb
FDiv(x, y) ==
    IF x.m = <<>> \/ y.m = <<>> THEN FloatZero
    ELSE LET k == 57 + BigBitLen(y.m) - BigBitLen(x.m)
             fill == 15 * Len(y.m) - BigBitLen(y.m)
         IN Then(BigDivMod(BigShl(x.m, k + fill), BigShl(y.m, fill)), LAMBDA qr :
                 Round(BigMulLimb(qr.q, 2, IF qr.r = <<>> THEN 0 ELSE 1),
                       x.e - y.e - k - 1))

\* [lo, hi, e] with at most 7 limbs in hi, from lo * 2^e <= v <= hi * 2^e
PowTruncated(lo, hi, e) ==
    LET t == BigBitLen(hi) - 7 * 15
    IN IF t <= 0 THEN [lo |-> lo, hi |-> hi, e |-> e]
       ELSE [lo |-> BigShr(lo, t), hi |-> BigAdd(BigShr(hi, t), <<1>>), e |-> e + t]

RECURSIVE PowInterval(_, _)
\* for n >= 1, [lo, hi, e] with lo * 2^e <= a^n <= hi * 2^e, by squaring
PowInterval(a, n) ==
    IF n = 1 THEN [lo |-> a, hi |-> a, e |-> 0]
    ELSE Then(PowInterval(a, n \div 2), LAMBDA h :
         Then(PowTruncated(BigMul(h.lo, h.lo), BigMul(h.hi, h.hi), 2 * h.e), LAMBDA sq :
              IF n % 2 = 0 THEN sq
              ELSE PowTruncated(BigMul(sq.lo, a), BigMul(sq.hi, a), sq.e)))

RECURSIVE BigPow(_, _)
BigPow(a, n) == IF n = 0 THEN <<1>> ELSE BigMul(BigPow(a, n - 1), a)

\* x ** n for an int n >= 0 (pow is correctly rounded on these arguments):
\* the float nearest to both ends of an interval around x^n where there is
\* one, and to x^n itself otherwise
FPow(x, n) ==
    IF n = 0 THEN FromInt(1)
    ELSE IF x.m = <<>> THEN FloatZero
    ELSE Then(PowInterval(x.m, n), LAMBDA p :
         Then(<<Round(p.lo, p.e + x.e * n), Round(p.hi, p.e + x.e * n)>>, LAMBDA r :
              IF r[1] = r[2] THEN r[1] ELSE Round(BigPow(x.m, n), x.e * n)))

----------------------------------------------------------------------------
(* Rarity decision: simulation/drop_algorithm.py, in float arithmetic *)

STREAK_DECAY_SHARED == FDiv(FromInt(6), FromInt(10))
STREAK_DECAY_UNIQUE_without_decay == FromInt(1)
STREAK_DECAY_UNIQUE == FDiv(FromInt(3), FromInt(10))
GAP_BASE == FDiv(FromInt(15), FromInt(10))

FloatOne == FromInt(1)
FloatHalf == FDiv(FromInt(1), FromInt(2))

\* rng is <<>> for rng=None and <<u>> for a source whose random() returns u
None == <<>>

\* compute_progression_score on floats: min(level / 10.0, 1.0)
progression_score_float(card) ==
    Then(FDiv(FromInt(card.level),
              FromInt(IF card.category = UNIQUE THEN 10 ELSE 100)), LAMBDA q :
         IF FLess(FloatOne, q) THEN FloatOne ELSE q)

RECURSIVE FSum(_, _, _)
\* sum(...) of progression scores: added left to right, starting from acc
FSum(acc, cards, ids) ==
    IF ids = <<>> THEN acc
    ELSE Then(FAdd(acc, progression_score_float(cards[Head(ids)])), LAMBDA sum :
              FSum(sum, cards, Tail(ids)))

category_progression_float_full_when_empty(cards, category) ==
    LET category_cards == Filter(cards, category)
    IN IF category_cards = <<>> THEN FloatOne
       ELSE FDiv(FSum(FloatZero, cards, category_cards),
                 FromInt(Len(category_cards)))

\* compute_category_progression on floats
category_progression_float(cards, category) ==
    LET category_cards == Filter(cards, category)
    IN IF category_cards = <<>> THEN FloatZero
       ELSE FDiv(FSum(FloatZero, cards, category_cards),
                 FromInt(Len(category_cards)))

\* GAP_BASE ** gap, or GAP_BASE ** (-gap) when negated, for gap = [neg, abs].
\* A power with a fractional exponent is irrational: only the gaps 0.0, 1.0
\* and -1.0 are computed.
GapPower(gap, negated) ==
    CASE gap.abs = FloatZero -> FloatOne
      [] gap.abs = FloatOne ->
            IF gap.neg = negated THEN GAP_BASE ELSE FDiv(FloatOne, GAP_BASE)

\* the locals of decide_rarity up to prob_shared, each computed from the ones
\* before it; total is 0.0 where the division raises ZeroDivisionError
rarity_weights(gs, cfg, streak) ==
    Then(<<category_progression_float(gs.cards, GOLD_SHARED),
           category_progression_float(gs.cards, BLUE_SHARED),
           category_progression_float(gs.cards, UNIQUE)>>, LAMBDA prog :
    Then(FDiv(FAdd(prog[1], prog[2]), FromInt(2)), LAMBDA s_shared :
    Then(IF FLess(prog[3], s_shared)
         THEN [neg |-> TRUE, abs |-> FSub(s_shared, prog[3])]
         ELSE [neg |-> FALSE, abs |-> FSub(prog[3], s_shared)], LAMBDA gap :
    Then(<<FMul(cfg.base_shared_rate, GapPower(gap, FALSE)),
           FMul(cfg.base_unique_rate, GapPower(gap, TRUE))>>, LAMBDA w :
    Then(<<FMul(w[1], FPow(STREAK_DECAY_SHARED, streak.streak_shared)),
           FMul(w[2], FPow(STREAK_DECAY_UNIQUE, streak.streak_unique))>>, LAMBDA final :
    Then(FAdd(final[1], final[2]), LAMBDA total :
         [s_shared |-> s_shared, s_unique |-> prog[3], gap |-> gap,
          w_shared |-> w[1], w_unique |-> w[2],
          final_shared |-> final[1], final_unique |-> final[2],
          total |-> total,
          prob_shared |-> IF total = FloatZero THEN FloatZero
                          ELSE FDiv(final[1], total)]))))))

resolve_rarity_without_ties(l, rng) ==
    IF l.total = FloatZero THEN "ZeroDivisionError"
    ELSE IF rng = None
         THEN (IF FLess(FloatHalf, l.prob_shared) THEN GOLD_SHARED ELSE UNIQUE)
         ELSE (IF FLess(rng[1], l.prob_shared) THEN GOLD_SHARED ELSE UNIQUE)

\* the category decide_rarity returns on the locals l
resolve_rarity(l, rng) ==
    IF l.total = FloatZero THEN "ZeroDivisionError"
    ELSE IF rng = None
         THEN (IF ~FLess(l.prob_shared, FloatHalf) THEN GOLD_SHARED ELSE UNIQUE)
         ELSE (IF FLess(rng[1], l.prob_shared) THEN GOLD_SHARED ELSE UNIQUE)

\* decide_rarity: its locals and what it returns
decide_rarity(gs, cfg, streak, rng) ==
    Then(rarity_weights(gs, cfg, streak), LAMBDA l :
         [returned |-> resolve_rarity(l, rng)] @@ l)

----------------------------------------------------------------------------
(* Upgrade engine: simulation/upgrade_engine.py.  A card argument is the   *)
(* position of the card object in game_state.cards.                        *)

UpgradeEvent(card_id, old_level, new_level, dupes_spent, coins_spent, bluestars_earned, day) ==
    [card_id |-> card_id, old_level |-> old_level, new_level |-> new_level,
     dupes_spent |-> dupes_spent, coins_spent |-> coins_spent,
     bluestars_earned |-> bluestars_earned, day |-> day]

\* list.sort(key=level) is stable: i goes after every entry whose level is <= its own
InsertByLevel(cards, sorted, i) ==
    LET k == Cardinality({j \in 1..Len(sorted) :
                             cards[sorted[j]].level <= cards[i].level})
    IN SubSeq(sorted, 1, k) \o <<i>> \o SubSeq(sorted, k + 1, Len(sorted))

RECURSIVE SortFirstByLevel(_, _, _)
\* the first n entries of idxs, sorted
SortFirstByLevel(cards, idxs, n) ==
    IF n = 0 THEN <<>>
    ELSE Then(SortFirstByLevel(cards, idxs, n - 1), LAMBDA sorted :
              InsertByLevel(cards, sorted, idxs[n]))

SortByLevel(cards, idxs) ==
    Then(idxs, LAMBDA category_cards :
         SortFirstByLevel(cards, category_cards, Len(category_cards)))

\* get_upgrade_candidates without the per-category sort by level
get_upgrade_candidates_unsorted(gs) ==
    Filter(gs.cards, UNIQUE) \o Filter(gs.cards, GOLD_SHARED)
    \o Filter(gs.cards, BLUE_SHARED)

get_upgrade_candidates(gs) ==
    SortByLevel(gs.cards, Filter(gs.cards, UNIQUE))
    \o SortByLevel(gs.cards, Filter(gs.cards, GOLD_SHARED))
    \o SortByLevel(gs.cards, Filter(gs.cards, BLUE_SHARED))

\* avg_shared_level of _can_upgrade: 100 x the mean of the two category progressions
AvgSharedLevel(cards) ==
    Then(compute_category_progression(cards, GOLD_SHARED), LAMBDA gold_prog :
    Then(compute_category_progression(cards, BLUE_SHARED), LAMBDA blue_prog :
         FracMul(FracDiv(FracAdd(gold_prog, blue_prog), 2), 100)))

\* _can_upgrade without its duplicate check
can_upgrade_without_duplicate_check(i, gs, cfg, ledger) ==
    LET card == gs.cards[i]
        upgrade_table == cfg.upgrade_tables[card.category]
    IN /\ ~(card.level >= MaxLevelOf(card, cfg))
       /\ ~(ledger.balance < upgrade_table.coin_costs[card.level])
       /\ (card.category = UNIQUE =>
              can_upgrade_unique(card, AvgSharedLevel(gs.cards),
                                 cfg.progression_mapping).value)

\* _can_upgrade with the max level test off by one (> for >=)
can_upgrade_past_max_level(i, gs, cfg, ledger) ==
    LET card == gs.cards[i]
        upgrade_table == cfg.upgrade_tables[card.category]
    IN /\ ~(card.level > MaxLevelOf(card, cfg))
       /\ ~(card.duplicates < upgrade_table.duplicate_costs[card.level])
       /\ ~(ledger.balance < upgrade_table.coin_costs[card.level])
       /\ (card.category = UNIQUE =>
              can_upgrade_unique(card, AvgSharedLevel(gs.cards),
                                 cfg.progression_mapping).value)

\* _can_upgrade without the gating check of unique cards
can_upgrade_without_gating(i, gs, cfg, ledger) ==
    LET card == gs.cards[i]
        upgrade_table == cfg.upgrade_tables[card.category]
    IN /\ ~(card.level >= MaxLevelOf(card, cfg))
       /\ ~(card.duplicates < upgrade_table.duplicate_costs[card.level])
       /\ ~(ledger.balance < upgrade_table.coin_costs[card.level])

\* _can_upgrade without its coin check
can_upgrade_without_coin_check(i, gs, cfg, ledger) ==
    LET card == gs.cards[i]
        upgrade_table == cfg.upgrade_tables[card.category]
    IN /\ ~(card.level >= MaxLevelOf(card, cfg))
       /\ ~(card.duplicates < upgrade_table.duplicate_costs[card.level])
       /\ (card.category = UNIQUE =>
              can_upgrade_unique(card, AvgSharedLevel(gs.cards),
                                 cfg.progression_mapping).value)

can_upgrade(i, gs, cfg, ledger) ==
    LET card == gs.cards[i]
        upgrade_table == cfg.upgrade_tables[card.category]
    IN /\ ~(card.level >= MaxLevelOf(card, cfg))
       /\ ~(card.duplicates < upgrade_table.duplicate_costs[card.level])
       /\ ~(ledger.balance < upgrade_table.coin_costs[card.level])
       /\ (card.category = UNIQUE =>
              can_upgrade_unique(card, AvgSharedLevel(gs.cards),
                                 cfg.progression_mapping).value)

\* _execute_upgrade reading the reward after the level is incremented
execute_upgrade_reward_of_new_level(i, gs, cfg, ledger) ==
    LET card == gs.cards[i]
        upgrade_table == cfg.upgrade_tables[card.category]
        dupe_cost == upgrade_table.duplicate_costs[card.level]
        coin_cost == upgrade_table.coin_costs[card.level]
        bluestar_reward == upgrade_table.bluestar_rewards[card.level + 1]
        deducted == [gs EXCEPT !.cards[i].duplicates = @ - dupe_cost]
        spent == spend(ledger, coin_cost, card.id, gs.day)
    IN [success |-> spent.success,
        game_state |-> [deducted EXCEPT
                           !.cards[i].level = @ + 1,
                           !.total_bluestars = @ + bluestar_reward],
        coin_ledger |-> spent.ledger,
        event |-> UpgradeEvent(card.id, card.level, card.level + 1, dupe_cost,
                               coin_cost, bluestar_reward, gs.day)]

\* _execute_upgrade that deducts and pays but leaves card.level as it was
execute_upgrade_without_level_increment(i, gs, cfg, ledger) ==
    LET card == gs.cards[i]
        upgrade_table == cfg.upgrade_tables[card.category]
        dupe_cost == upgrade_table.duplicate_costs[card.level]
        coin_cost == upgrade_table.coin_costs[card.level]
        bluestar_reward == upgrade_table.bluestar_rewards[card.level]
        deducted == [gs EXCEPT !.cards[i].duplicates = @ - dupe_cost]
        spent == spend(ledger, coin_cost, card.id, gs.day)
    IN [success |-> spent.success,
        game_state |-> [deducted EXCEPT !.total_bluestars = @ + bluestar_reward],
        coin_ledger |-> spent.ledger,
        event |-> UpgradeEvent(card.id, card.level, card.level + 1, dupe_cost,
                               coin_cost, bluestar_reward, gs.day)]

\* _execute_upgrade that records the reward in the event but never awards it
execute_upgrade_without_bluestar_award(i, gs, cfg, ledger) ==
    LET card == gs.cards[i]
        upgrade_table == cfg.upgrade_tables[card.category]
        dupe_cost == upgrade_table.duplicate_costs[card.level]
        coin_cost == upgrade_table.coin_costs[card.level]
        bluestar_reward == upgrade_table.bluestar_rewards[card.level]
        deducted == [gs EXCEPT !.cards[i].duplicates = @ - dupe_cost]
        spent == spend(ledger, coin_cost, card.id, gs.day)
    IN [success |-> spent.success,
        game_state |-> [deducted EXCEPT !.cards[i].level = @ + 1],
        coin_ledger |-> spent.ledger,
        event |-> UpgradeEvent(card.id, card.level, card.level + 1, dupe_cost,
                               coin_cost, bluestar_reward, gs.day)]

\* success = FALSE is the failed assertion: the duplicates are already deducted
\* _execute_upgrade reading old_level after "card.level += 1"
execute_upgrade_old_level_read_late(i, gs, cfg, ledger) ==
    LET card == gs.cards[i]
        upgrade_table == cfg.upgrade_tables[card.category]
        dupe_cost == upgrade_table.duplicate_costs[card.level]
        coin_cost == upgrade_table.coin_costs[card.level]
        bluestar_reward == upgrade_table.bluestar_rewards[card.level]
        deducted == [gs EXCEPT !.cards[i].duplicates = @ - dupe_cost]
        spent == spend(ledger, coin_cost, card.id, gs.day)
    IN IF ~spent.success
       THEN [success |-> FALSE, game_state |-> deducted,
             coin_ledger |-> spent.ledger, event |-> <<>>]
       ELSE [success |-> TRUE,
             game_state |-> [deducted EXCEPT
                                !.cards[i].level = @ + 1,
                                !.total_bluestars = @ + bluestar_reward],
             coin_ledger |-> spent.ledger,
             event |-> UpgradeEvent(card.id, card.level + 1, card.level + 1,
                                    dupe_cost, coin_cost, bluestar_reward, gs.day)]

\* _execute_upgrade without "card.duplicates -= dupe_cost"
execute_upgrade_without_duplicate_deduction(i, gs, cfg, ledger) ==
    LET card == gs.cards[i]
        old_level == card.level
        upgrade_table == cfg.upgrade_tables[card.category]
        dupe_cost == upgrade_table.duplicate_costs[card.level]
        coin_cost == upgrade_table.coin_costs[card.level]
        bluestar_reward == upgrade_table.bluestar_rewards[card.level]
        spent == spend(ledger, coin_cost, card.id, gs.day)
    IN IF ~spent.success
       THEN [success |-> FALSE, game_state |-> gs,
             coin_ledger |-> spent.ledger, event |-> <<>>]
       ELSE [success |-> TRUE,
             game_state |-> [gs EXCEPT
                                !.cards[i].level = @ + 1,
                                !.total_bluestars = @ + bluestar_reward],
             coin_ledger |-> spent.ledger,
             event |-> UpgradeEvent(card.id, old_level, old_level + 1, dupe_cost,
                                    coin_cost, bluestar_reward, gs.day)]

execute_upgrade(i, gs, cfg, ledger) ==
    LET card == gs.cards[i]
        old_level == card.level
        upgrade_table == cfg.upgrade_tables[card.category]
        dupe_cost == upgrade_table.duplicate_costs[card.level]
        coin_cost == upgrade_table.coin_costs[card.level]
        bluestar_reward == upgrade_table.bluestar_rewards[card.level]
        deducted == [gs EXCEPT !.cards[i].duplicates = @ - dupe_cost]
        spent == spend(ledger, coin_cost, card.id, gs.day)
    IN IF ~spent.success
       THEN [success |-> FALSE, game_state |-> deducted,
             coin_ledger |-> spent.ledger, event |-> <<>>]
       ELSE [success |-> TRUE,
             game_state |-> [deducted EXCEPT
                                !.cards[i].level = @ + 1,
                                !.total_bluestars = @ + bluestar_reward],
             coin_ledger |-> spent.ledger,
             event |-> UpgradeEvent(card.id, old_level, old_level + 1, dupe_cost,
                                    coin_cost, bluestar_reward, gs.day)]

\* _can_upgrade handing every card that passes the first three checks to
\* can_upgrade_unique, whatever its category
can_upgrade_raises_for_any_category(i, gs, cfg, ledger) ==
    LET card == gs.cards[i]
        upgrade_table == cfg.upgrade_tables[card.category]
    IN /\ ~(card.level >= MaxLevelOf(card, cfg))
       /\ ~(card.duplicates < upgrade_table.duplicate_costs[card.level])
       /\ ~(ledger.balance < upgrade_table.coin_costs[card.level])
       /\ can_upgrade_unique(card, AvgSharedLevel(gs.cards),
                             cfg.progression_mapping).raised

\* _can_upgrade ends in the ValueError of can_upgrade_unique: the first three
\* checks pass, the card is taken to the gating check and the call raises
can_upgrade_raises(i, gs, cfg, ledger) ==
    LET card == gs.cards[i]
        upgrade_table == cfg.upgrade_tables[card.category]
    IN /\ ~(card.level >= MaxLevelOf(card, cfg))
       /\ ~(card.duplicates < upgrade_table.duplicate_costs[card.level])
       /\ ~(ledger.balance < upgrade_table.coin_costs[card.level])
       /\ card.category = UNIQUE
       /\ can_upgrade_unique(card, AvgSharedLevel(gs.cards),
                             cfg.progression_mapping).raised

RECURSIVE FirstEligible(_, _, _, _)
\* the first candidate the scan of attempt_upgrades finds eligible, 0 if none
FirstEligible(candidates, gs, cfg, ledger) ==
    IF candidates = <<>> THEN 0
    ELSE IF can_upgrade(candidates[1], gs, cfg, ledger) THEN candidates[1]
    ELSE FirstEligible(Tail(candidates), gs, cfg, ledger)

\* a scan that gives up after the first candidate (the break outside the if)
ScanChoiceFirstCandidateOnly(gs, cfg, ledger) ==
    LET candidates == get_upgrade_candidates(gs)
    IN IF candidates # <<>> /\ can_upgrade(candidates[1], gs, cfg, ledger)
       THEN candidates[1] ELSE 0

\* the card one pass of the while loop of attempt_upgrades upgrades, 0 if none
ScanChoice(gs, cfg, ledger) ==
    Then(get_upgrade_candidates(gs), LAMBDA candidates :
         FirstEligible(candidates, gs, cfg, ledger))

\* the scan of attempt_upgrades is ended by a ValueError: _can_upgrade raises
\* on a candidate before any candidate was found eligible
ScanRaises(gs, cfg, ledger) ==
    \E candidates \in {get_upgrade_candidates(gs)} :
       \E k \in 1..Len(candidates) :
          /\ can_upgrade_raises(candidates[k], gs, cfg, ledger)
          /\ \A j \in 1..(k - 1) : ~can_upgrade(candidates[j], gs, cfg, ledger)

----------------------------------------------------------------------------
(* Orchestrator: simulation/orchestrator.py *)

NoPull == [card |-> 0, level_before |-> 0, dupes |-> 0, coins |-> 0,
           streak_arg |-> ZeroStreak, updated_streak |-> ZeroStreak]
NoCall == [op |-> "none"]

HeroCards(from, to) == [k \in 1..(to - from + 1) |-> Card(<<"hero", from + k - 1>>, UNIQUE)]

create_initial_state(cfg) ==
    LET gold == [i \in 1..cfg.num_gold_cards |-> Card(<<"gold", i>>, GOLD_SHARED)]
        blue == [i \in 1..cfg.num_blue_cards |-> Card(<<"blue", i>>, BLUE_SHARED)]
        initial_unique_count ==
            get_unlocked_unique_count(1, cfg.unique_unlock_schedule)
    IN [game_state |->
            [day |-> 0,
             cards |-> gold \o blue \o HeroCards(1, initial_unique_count),
             coins |-> cfg.initial_coins,
             total_bluestars |-> cfg.initial_bluestars,
             streak_state |-> ZeroStreak],
        coin_ledger |-> [balance |-> cfg.initial_coins, transactions |-> <<>>],
        streak_state |-> ZeroStreak]

\* no interleaved runs
RunsIdle ==
    /\ run_heap = <<>>
    /\ run_frames = <<>>
    /\ run_draws = <<>>

\* the harness variables of the pure-function specifications, unused in a run
HarnessIdle ==
    /\ ledger_call = NoCall
    /\ streak_call = NoCall
    /\ gate_call = NoCall
    /\ rarity_call = NoCall
    /\ url_call = NoCall

Init ==
    /\ config \in Configs
    /\ pc = "day"
    /\ game_state = create_initial_state(config).game_state
    /\ coin_ledger = create_initial_state(config).coin_ledger
    /\ streak_state = create_initial_state(config).streak_state
    /\ day_pack_counts = <<>>
    /\ card_pulls = 0
    /\ pull_index = 0
    /\ pull = NoPull
    /\ events = <<>>
    /\ upgrade_events = <<>>
    /\ pull_logger = <<>>
    /\ daily_snapshots = <<>>
    /\ RunsIdle
    /\ HarnessIdle

\* the unlock step with range(current + 1, unlocked): the last card is missed
UnlockStepMissingLast(gs, cfg, day) ==
    LET unlocked_count == get_unlocked_unique_count(day, cfg.unique_unlock_schedule)
        current_unique_count == Len(Filter(gs.cards, UNIQUE))
    IN IF unlocked_count > current_unique_count
       THEN gs.cards \o HeroCards(current_unique_count + 1, unlocked_count - 1)
       ELSE gs.cards

\* the unlock step numbering the cards of each unlock from 1
UnlockStepNumberingFromOne(gs, cfg, day) ==
    LET unlocked_count == get_unlocked_unique_count(day, cfg.unique_unlock_schedule)
        current_unique_count == Len(Filter(gs.cards, UNIQUE))
    IN IF unlocked_count > current_unique_count
       THEN gs.cards \o HeroCards(1, unlocked_count - current_unique_count)
       ELSE gs.cards

\* the unlock step building all unique cards anew when more are unlocked
UnlockStepRebuildingUniques(gs, cfg, day) ==
    LET unlocked_count == get_unlocked_unique_count(day, cfg.unique_unlock_schedule)
        current_unique_count == Len(Filter(gs.cards, UNIQUE))
    IN IF unlocked_count > current_unique_count
       THEN SelectSeq(gs.cards, LAMBDA card : card.category # UNIQUE)
            \o HeroCards(1, unlocked_count)
       ELSE gs.cards

\* the unlock step of a day: the cards list after it
UnlockStep(gs, cfg, day) ==
    LET unlocked_count == get_unlocked_unique_count(day, cfg.unique_unlock_schedule)
        current_unique_count == Len(Filter(gs.cards, UNIQUE))
    IN IF unlocked_count > current_unique_count
       THEN gs.cards \o HeroCards(current_unique_count + 1, unlocked_count)
       ELSE gs.cards

\* "index = day % len(schedule)": the day taken for a 0-based index
get_day_pack_counts_without_offset(cfg, day) ==
    LET schedule == cfg.daily_pack_schedule
    IN IF schedule = <<>> THEN <<>>
       ELSE schedule[(day % Len(schedule)) + 1]

\* the pack counts of the day: a dict from pack name to count, <<>> for {}.
\* The Python list is 0-indexed, the sequence 1-indexed.
get_day_pack_counts(cfg, day) ==
    LET schedule == cfg.daily_pack_schedule
    IN IF schedule = <<>> THEN <<>>
       ELSE schedule[((day - 1) % Len(schedule)) + 1]

\* for day in range(1, num_days + 1): the head of a day up to the pull loop.
\* process_packs_for_day is the external pack system: it returns n pull intents.
StartDay(n) ==
    /\ pc = "day"
    /\ game_state.day < config.num_days
    /\ Len(pull_logger) + n <= MaxPulls
    /\ LET day == game_state.day + 1
       IN game_state' = [game_state EXCEPT
                            !.day = day,
                            !.cards = UnlockStep(game_state, config, day)]
    /\ day_pack_counts' = get_day_pack_counts(config, game_state.day + 1)
    /\ card_pulls' = n
    /\ upgrade_events' = <<>>
    /\ pull_index' = 0
    /\ pc' = "pull"
    /\ UNCHANGED <<runsVars, url_call, config, coin_ledger, streak_state, pull, events, pull_logger,
                   daily_snapshots, ledger_call, streak_call, gate_call, rarity_call>>

\* the argument taken from game_state.streak_state, which no pull updates
StreakArgumentOfGameState(gs, local_streak) == gs.streak_state

\* the StreakState argument run_simulation hands to perform_card_pull
StreakArgument(gs, local_streak) == local_streak

\* perform_card_pull (external pull resolution): the rarity decision picks the
\* category, the pack system the card i of it and the duplicates; the streak
\* is updated by update_rarity_streak and the coins are compute_coin_income
perform_card_pull(gs, cfg, streak, i, dupes) ==
    [card |-> i,
     dupes |-> dupes,
     coins |-> compute_coin_income(gs.cards[i], dupes, cfg),
     updated_streak |-> update_rarity_streak(streak, gs.cards[i].category)]

\* the next pull is resolved without draining the upgrades of this one
AfterPullWithoutUpgrades == "pull"

\* where run_simulation goes once a pull is resolved and credited: into
\* attempt_upgrades, before the next pull
AfterPull == "upgrade"

\* one pass of "for _card_pull in card_pulls" up to the call of attempt_upgrades
PerformPull(i, dupes) ==
    /\ pc = "pull"
    /\ pull_index < card_pulls
    /\ i \in 1..Len(game_state.cards)
    /\ dupes \in config.duplicate_ranges[game_state.cards[i].category]
    /\ LET arg == StreakArgument(game_state, streak_state)
           r == perform_card_pull(game_state, config, arg, i, dupes)
           card == game_state.cards[i]
       IN /\ pull_index' = pull_index + 1
          /\ pull' = [card |-> i, level_before |-> card.level,
                      dupes |-> r.dupes, coins |-> r.coins,
                      streak_arg |-> arg, updated_streak |-> r.updated_streak]
          /\ game_state' = [game_state EXCEPT !.cards[i].duplicates = @ + r.dupes]
          /\ coin_ledger' = add_income(coin_ledger, r.coins, card.id, game_state.day)
          /\ streak_state' = r.updated_streak
    /\ events' = <<>>
    /\ pc' = AfterPull
    /\ UNCHANGED <<runsVars, url_call, config, day_pack_counts, card_pulls, upgrade_events,
                   pull_logger, daily_snapshots, ledger_call, streak_call,
                   gate_call, rarity_call>>

\* one pass of the while loop of attempt_upgrades that finds an eligible
\* card, or is ended by the ValueError of can_upgrade_unique (pc "raised")
UpgradeStep ==
    /\ pc = "upgrade"
    /\ \/ ScanRaises(game_state, config, coin_ledger)
       \/ ScanChoice(game_state, config, coin_ledger) # 0
    /\ IF ScanRaises(game_state, config, coin_ledger)
       THEN pc' = "raised" /\ UNCHANGED <<game_state, coin_ledger, events>>
       ELSE \E card \in {ScanChoice(game_state, config, coin_ledger)} :
               \E r \in {execute_upgrade(card, game_state, config, coin_ledger)} :
                  /\ game_state' = r.game_state
                  /\ coin_ledger' = r.coin_ledger
                  /\ IF r.success
                     THEN events' = Append(events, r.event) /\ pc' = "upgrade"
                     ELSE events' = events /\ pc' = "aborted"
    /\ UNCHANGED <<runsVars, url_call, config, streak_state, day_pack_counts, card_pulls, pull_index,
                   pull, upgrade_events, pull_logger, daily_snapshots, ledger_call,
                   streak_call, gate_call, rarity_call>>

\* a record numbered from 0: the index as it was before "pull_index += 1"
PullEvent_numbered_from_zero(day, index, card, p, upgrades) ==
    [day |-> day, pull_index |-> index - 1, card_id |-> card.id,
     card_category |-> card.category, card_level_before |-> p.level_before,
     duplicates_received |-> p.dupes, duplicates_total_after |-> card.duplicates,
     coins_earned |-> p.coins, upgrades |-> upgrades]

PullEvent(day, index, card, p, upgrades) ==
    [day |-> day, pull_index |-> index, card_id |-> card.id,
     card_category |-> card.category, card_level_before |-> p.level_before,
     duplicates_received |-> p.dupes, duplicates_total_after |-> card.duplicates,
     coins_earned |-> p.coins, upgrades |-> upgrades]

\* the return of attempt_upgrades with "upgrade_events = pull_upgrades": the
\* day's list is replaced, not extended
UpgradeReturnReplacingEvents ==
    /\ pc = "upgrade"
    /\ ~ScanRaises(game_state, config, coin_ledger)
    /\ ScanChoice(game_state, config, coin_ledger) = 0
    /\ upgrade_events' = events
    /\ pull_logger' = Append(pull_logger,
                             PullEvent(game_state.day, pull_index,
                                       game_state.cards[pull.card], pull, events))
    /\ pc' = "pull"
    /\ UNCHANGED <<runsVars, url_call, config, game_state, coin_ledger, streak_state,
                   day_pack_counts, card_pulls, pull_index, pull, events,
                   daily_snapshots, ledger_call, streak_call, gate_call,
                   rarity_call>>

\* the pass of the while loop that finds no eligible card: attempt_upgrades
\* returns, its events extend upgrade_events and the pull is logged
UpgradeReturn ==
    /\ pc = "upgrade"
    /\ ~ScanRaises(game_state, config, coin_ledger)
    /\ ScanChoice(game_state, config, coin_ledger) = 0
    /\ upgrade_events' = upgrade_events \o events
    /\ pull_logger' = Append(pull_logger,
                             PullEvent(game_state.day, pull_index,
                                       game_state.cards[pull.card], pull, events))
    /\ pc' = "pull"
    /\ UNCHANGED <<runsVars, url_call, config, game_state, coin_ledger, streak_state, day_pack_counts,
                   card_pulls, pull_index, pull, events, daily_snapshots, ledger_call,
                   streak_call, gate_call, rarity_call>>

CategoryAvgLevel(cards, category) ==
    LET cat_cards == Filter(cards, category)
    IN IF cat_cards = <<>> THEN Frac(0, 1)
       ELSE Frac(SumSeq([k \in 1..Len(cat_cards) |-> cards[cat_cards[k]].level]),
                 Len(cat_cards))

DailySnapshot(gs, cfg, ledger, day_events) ==
    LET summary == daily_summary(ledger, gs.day)
    IN [day |-> gs.day,
        total_bluestars |-> gs.total_bluestars,
        bluestars_earned_today |->
            SumSeq([k \in 1..Len(day_events) |-> day_events[k].bluestars_earned]),
        coins_balance |-> ledger.balance,
        coins_earned_today |-> summary.total_income,
        coins_spent_today |-> summary.total_spent,
        card_levels |-> {<<gs.cards[k].id, gs.cards[k].level>> : k \in 1..Len(gs.cards)},
        upgrades_today |-> day_events,
        category_avg_levels |->
            [c \in CardCategory |-> CategoryAvgLevel(gs.cards, c)],
        total_unique_unlocked |->
            get_unlocked_unique_count(gs.day, cfg.unique_unlock_schedule)]

\* the pull loop is exhausted: the day's snapshot is recorded
EndDay ==
    /\ pc = "pull"
    /\ pull_index = card_pulls
    /\ daily_snapshots' = Append(daily_snapshots,
                                 DailySnapshot(game_state, config, coin_ledger,
                                               upgrade_events))
    /\ pc' = "day"
    /\ UNCHANGED <<runsVars, url_call, config, game_state, coin_ledger, streak_state, day_pack_counts,
                   card_pulls, pull_index, pull, events, upgrade_events, pull_logger,
                   ledger_call, streak_call, gate_call, rarity_call>>

\* the day loop left one day early, as with range(1, num_days)
FinishOneDayEarly ==
    /\ pc = "day"
    /\ game_state.day + 1 = config.num_days
    /\ pc' = "done"
    /\ UNCHANGED <<runsVars, url_call, config, game_state, coin_ledger, streak_state, day_pack_counts,
                   card_pulls, pull_index, pull, events, upgrade_events, pull_logger,
                   daily_snapshots, ledger_call, streak_call, gate_call, rarity_call>>

\* the day loop is exhausted: run_simulation returns
Finish ==
    /\ pc = "day"
    /\ game_state.day = config.num_days
    /\ pc' = "done"
    /\ UNCHANGED <<runsVars, url_call, config, game_state, coin_ledger, streak_state, day_pack_counts,
                   card_pulls, pull_index, pull, events, upgrade_events, pull_logger,
                   daily_snapshots, ledger_call, streak_call, gate_call, rarity_call>>

Next ==
    \/ \E n \in 0..MaxPulls : StartDay(n)
    \/ \E i \in 1..Len(game_state.cards) :
          \E dupes \in config.duplicate_ranges[game_state.cards[i].category] :
             PerformPull(i, dupes)
    \/ UpgradeStep
    \/ UpgradeReturn
    \/ EndDay
    \/ Finish

Spec == Init /\ [][Next]_vars

\* run_simulation is one thread of control that nothing suspends: as long as
\* a step of it is possible, a step is taken
SpecFair == Spec /\ WF_vars(Next)

----------------------------------------------------------------------------
(* The ledger API on its own: add_income and spend called with any amount  *)
(* on any ledger, so that the rejecting branch of spend is exercised too.  *)

\* the variables of run_simulation, unused by the pure-function harnesses
RunIdle ==
    /\ config = ConfigPaid
    /\ pc = "harness"
    /\ game_state = create_initial_state(ConfigPaid).game_state
    /\ day_pack_counts = <<>>
    /\ card_pulls = 0
    /\ pull_index = 0
    /\ pull = NoPull
    /\ events = <<>>
    /\ upgrade_events = <<>>
    /\ pull_logger = <<>>
    /\ daily_snapshots = <<>>
    /\ RunsIdle

runOnlyVars == <<runsVars, url_call, config, pc, game_state, day_pack_counts, card_pulls,
                 pull_index, pull, events,
                 upgrade_events, pull_logger, daily_snapshots>>

LedgerCardIds == {<<"gold", 1>>, <<"hero", 1>>}
LedgerDays == {1, 2}

LedgerInit ==
    /\ RunIdle
    /\ coin_ledger \in [balance : 0..MaxAmount, transactions : {<<>>}]
    /\ streak_state = ZeroStreak
    /\ HarnessIdle

CallAddIncome(amount, card_id, day) ==
    /\ Len(coin_ledger.transactions) < MaxTransactions
    /\ coin_ledger' = add_income(coin_ledger, amount, card_id, day)
    /\ ledger_call' = [op |-> "add_income", amount |-> amount, card_id |-> card_id,
                       day |-> day, before |-> coin_ledger, returned |-> TRUE]
    /\ UNCHANGED <<runOnlyVars, streak_state, streak_call, gate_call, rarity_call>>

CallSpend(amount, card_id, day) ==
    /\ Len(coin_ledger.transactions) < MaxTransactions
    /\ LET r == spend(coin_ledger, amount, card_id, day)
       IN /\ coin_ledger' = r.ledger
          /\ ledger_call' = [op |-> "spend", amount |-> amount, card_id |-> card_id,
                             day |-> day, before |-> coin_ledger,
                             returned |-> r.success]
    /\ UNCHANGED <<runOnlyVars, streak_state, streak_call, gate_call, rarity_call>>

LedgerNext ==
    \/ \E amount \in 0..MaxAmount, card_id \in LedgerCardIds, day \in LedgerDays :
          CallAddIncome(amount, card_id, day)
    \/ \E amount \in 0..MaxAmount, card_id \in LedgerCardIds, day \in LedgerDays :
          CallSpend(amount, card_id, day)

SpecLedger == LedgerInit /\ [][LedgerNext]_vars

\* the ledger as run_simulation drives it, and the ledger API called directly
\* on a ledger created with any balance
CoinsNext ==
    \/ Next
    \/ pc = "harness" /\ LedgerNext

SpecCoins == (Init \/ LedgerInit) /\ [][CoinsNext]_vars

----------------------------------------------------------------------------
(* update_rarity_streak on its own: applied to any StreakState, and        *)
(* repeatedly to its own result.                                           *)

StreakMaps == {<<>>, ("red" :> 1)}

StreakStates ==
    [streak_shared : 0..MaxStreak, streak_unique : 0..MaxStreak,
     streak_per_color : StreakMaps, streak_per_hero : StreakMaps]

\* streak_call.origin is the state the chain of updates started from;
\* heap_before and heap are the caller's objects before and after the call,
\* streak_state and returned the references passed in and handed back
StreakInit ==
    /\ RunIdle
    /\ coin_ledger = create_initial_state(ConfigPaid).coin_ledger
    /\ ledger_call = NoCall
    /\ gate_call = NoCall
    /\ rarity_call = NoCall
    /\ url_call = NoCall
    /\ streak_state \in StreakStates
    /\ streak_call = [op |-> "none", origin |-> streak_state]

CallUpdateRarityStreak(chosen) ==
    /\ streak_state.streak_shared < MaxStreak
    /\ streak_state.streak_unique < MaxStreak
    /\ streak_state' = update_rarity_streak(streak_state, chosen)
    /\ LET caller == NewStreakState(<<>>, streak_state)
           call == update_rarity_streak_object(caller.heap, caller.returned, chosen)
       IN streak_call' = [op |-> "update", origin |-> streak_call.origin,
                          input |-> streak_state, chosen |-> chosen,
                          heap_before |-> caller.heap,
                          streak_state |-> caller.returned,
                          heap |-> call.heap, returned |-> call.returned]
    /\ UNCHANGED <<runOnlyVars, coin_ledger, ledger_call, gate_call, rarity_call>>

StreakNext == \E chosen \in CardCategory : CallUpdateRarityStreak(chosen)

SpecStreak == StreakInit /\ [][StreakNext]_vars

----------------------------------------------------------------------------
(* get_max_unique_level on its own: applied to any mapping of two sequences *)
(* of equal length, sorted or not, and to averages below, at and between   *)
(* the shared levels.                                                      *)

\* longest progression mapping of the harness
MaxMappingLen == 3

GateSharedLevels == {1, 2, 4}
GateUniqueLevels == {1, 2, 3}
GateAverages == {Frac(n, 2) : n \in 0..10}

GateMappings ==
    UNION {[shared_levels : [1..n -> GateSharedLevels],
            unique_levels : [1..n -> GateUniqueLevels]] : n \in 0..MaxMappingLen}

GateInit ==
    /\ config \in {[ConfigPaid EXCEPT !.progression_mapping = m] : m \in GateMappings}
    /\ pc = "harness"
    /\ game_state = create_initial_state(ConfigPaid).game_state
    /\ coin_ledger = create_initial_state(ConfigPaid).coin_ledger
    /\ streak_state = ZeroStreak
    /\ day_pack_counts = <<>>
    /\ card_pulls = 0
    /\ pull_index = 0
    /\ pull = NoPull
    /\ events = <<>>
    /\ upgrade_events = <<>>
    /\ pull_logger = <<>>
    /\ daily_snapshots = <<>>
    /\ RunsIdle
    /\ HarnessIdle

CallGetMaxUniqueLevel(avg) ==
    /\ gate_call' = [op |-> "get_max_unique_level", avg |-> avg,
                     returned |-> get_max_unique_level(avg, config.progression_mapping)]
    /\ UNCHANGED <<runOnlyVars, coin_ledger, streak_state, ledger_call,
                   streak_call, rarity_call>>

GateNext == \E avg \in GateAverages : CallGetMaxUniqueLevel(avg)

SpecGate == GateInit /\ [][GateNext]_vars

----------------------------------------------------------------------------
(* can_upgrade_unique on its own, beside the runs in which _can_upgrade     *)
(* calls it: applied to cards of every category with the mappings of the   *)
(* run configurations.                                                     *)

GateCards ==
    {[Card(<<"card", 1>>, category) EXCEPT !.level = level] :
        category \in CardCategory, level \in 1..3}

GatingInit ==
    /\ config \in Configs
    /\ pc = "harness"
    /\ game_state = create_initial_state(ConfigPaid).game_state
    /\ coin_ledger = create_initial_state(ConfigPaid).coin_ledger
    /\ streak_state = ZeroStreak
    /\ day_pack_counts = <<>>
    /\ card_pulls = 0
    /\ pull_index = 0
    /\ pull = NoPull
    /\ events = <<>>
    /\ upgrade_events = <<>>
    /\ pull_logger = <<>>
    /\ daily_snapshots = <<>>
    /\ RunsIdle
    /\ HarnessIdle

CallCanUpgradeUnique(card, avg) ==
    /\ pc = "harness"
    /\ LET r == can_upgrade_unique(card, avg, config.progression_mapping)
       IN gate_call' = [op |-> "can_upgrade_unique", card |-> card, avg |-> avg,
                        raised |-> r.raised, returned |-> r.value]
    /\ UNCHANGED <<runOnlyVars, coin_ledger, streak_state, ledger_call,
                   streak_call, rarity_call>>

GatingNext ==
    \/ Next
    \/ \E card \in GateCards, avg \in GateAverages : CallCanUpgradeUnique(card, avg)

SpecGating == (Init \/ GatingInit) /\ [][GatingNext]_vars

----------------------------------------------------------------------------
(* Several calls of run_simulation on one SimConfig, interleaved at the    *)
(* granularity of pulls and upgrades. The objects a call creates live in a *)
(* heap, and the call's frame holds references to them.                    *)

RunIds == {1, 2}

\* the outcomes the external pack system deals one call: per day, the
\* (card, duplicates) each pull intent resolves to
RunScripts ==
    {<< <<>>, <<>> >>,
     << <<<<1, 1>>>>, <<>> >>,
     << <<<<1, 1>>, <<1, 1>>>>, <<<<4, 1>>>> >>,
     << <<<<4, 1>>>>, <<<<1, 1>>, <<5, 1>>>> >>,
     << <<>>, <<<<3, 1>>, <<1, 1>>>> >>}

\* the cards a pull can resolve to on a day: the collection after the unlocks
CardsOnDay(cfg, day) ==
    UnlockStep(create_initial_state(cfg).game_state, cfg, day)

\* a script process_packs_for_day and perform_card_pull can produce under cfg
ValidScript(cfg, script) ==
    /\ Len(script) = cfg.num_days
    /\ \A day \in 1..Len(script) : \A k \in 1..Len(script[day]) :
          /\ script[day][k][1] \in 1..Len(CardsOnDay(cfg, day))
          /\ script[day][k][2] \in
                cfg.duplicate_ranges[CardsOnDay(cfg, day)[script[day][k][1]].category]

\* a call that has not started
NoFrame == [pc |-> "entry"]

\* a module-level logger that every call appends to
PullLoggerOfModule(heap) == 3

\* pull_logger = PullLogger(): the reference to the new object, which
\* run_simulation_enter puts third on the heap
NewPullLogger(heap) == Len(heap) + 3

\* create_initial_state keeping the objects of its first call
InitialObjectsCached(heap) ==
    IF heap = <<>> THEN <<Len(heap) + 1, Len(heap) + 2>> ELSE <<1, 2>>

\* the references to the GameState and the CoinLedger create_initial_state
\* returns: two new objects, first and second on the heap
InitialObjects(heap) == <<Len(heap) + 1, Len(heap) + 2>>

\* the head of run_simulation: create_initial_state, the empty snapshot list
\* and the new PullLogger
run_simulation_enter(heap, cfg) ==
    LET initial == create_initial_state(cfg)
    IN [heap |-> heap \o <<initial.game_state, initial.coin_ledger, <<>> >>,
        frame |-> [pc |-> "day",
                   game_state |-> InitialObjects(heap)[1],
                   coin_ledger |-> InitialObjects(heap)[2],
                   pull_logger |-> NewPullLogger(heap),
                   streak_state |-> initial.streak_state,
                   day_pack_counts |-> <<>>,
                   card_pulls |-> <<>>,
                   pull_index |-> 0,
                   pull |-> NoPull,
                   events |-> <<>>,
                   upgrade_events |-> <<>>,
                   daily_snapshots |-> <<>>,
                   steps |-> 0]]

\* the head of a day: unlock step, pack counts, the day's pull intents
RunStartDay(heap, frame, cfg, script) ==
    LET gs == heap[frame.game_state]
        day == gs.day + 1
    IN [heap |-> [heap EXCEPT ![frame.game_state] =
                     [gs EXCEPT !.day = day, !.cards = UnlockStep(gs, cfg, day)]],
        frame |-> [frame EXCEPT !.day_pack_counts = get_day_pack_counts(cfg, day),
                                !.card_pulls = script[day],
                                !.upgrade_events = <<>>,
                                !.pull_index = 0,
                                !.pc = "pull"]]

\* one pull: resolved, credited to the card and the ledger, streak rebound
RunPerformPull(heap, frame, cfg) ==
    LET gs == heap[frame.game_state]
        ledger == heap[frame.coin_ledger]
        i == frame.card_pulls[frame.pull_index + 1][1]
        dupes == frame.card_pulls[frame.pull_index + 1][2]
        arg == StreakArgument(gs, frame.streak_state)
        r == perform_card_pull(gs, cfg, arg, i, dupes)
        card == gs.cards[i]
    IN [heap |-> [heap EXCEPT
                     ![frame.game_state] =
                         [gs EXCEPT !.cards[i].duplicates = @ + r.dupes],
                     ![frame.coin_ledger] =
                         add_income(ledger, r.coins, card.id, gs.day)],
        frame |-> [frame EXCEPT
                      !.pull_index = @ + 1,
                      !.pull = [card |-> i, level_before |-> card.level,
                                dupes |-> r.dupes, coins |-> r.coins,
                                streak_arg |-> arg,
                                updated_streak |-> r.updated_streak],
                      !.streak_state = r.updated_streak,
                      !.events = <<>>,
                      !.pc = AfterPull]]

\* one pass of the while loop of attempt_upgrades; the pass that upgrades
\* nothing returns and the pull is logged
RunUpgrade(heap, frame, cfg) ==
    LET gs == heap[frame.game_state]
        ledger == heap[frame.coin_ledger]
    IN IF ScanRaises(gs, cfg, ledger)
       THEN [heap |-> heap, frame |-> [frame EXCEPT !.pc = "raised"]]
       ELSE Then(ScanChoice(gs, cfg, ledger), LAMBDA card :
            IF card = 0
            THEN [heap |-> [heap EXCEPT ![frame.pull_logger] =
                               Append(@, PullEvent(gs.day, frame.pull_index,
                                                   gs.cards[frame.pull.card],
                                                   frame.pull, frame.events))],
                  frame |-> [frame EXCEPT
                                !.upgrade_events = @ \o frame.events,
                                !.pc = "pull"]]
            ELSE Then(execute_upgrade(card, gs, cfg, ledger), LAMBDA r :
                 [heap |-> [heap EXCEPT ![frame.game_state] = r.game_state,
                                        ![frame.coin_ledger] = r.coin_ledger],
                  frame |-> IF r.success
                            THEN [frame EXCEPT !.events = Append(@, r.event)]
                            ELSE [frame EXCEPT !.pc = "aborted"]]))

\* the pull loop is exhausted: the day's snapshot is recorded
RunEndDay(heap, frame, cfg) ==
    [heap |-> heap,
     frame |-> [frame EXCEPT
                   !.daily_snapshots =
                       Append(@, DailySnapshot(heap[frame.game_state], cfg,
                                               heap[frame.coin_ledger],
                                               frame.upgrade_events)),
                   !.pc = "day"]]

\* the step of run_simulation a call at frame.pc takes next
run_simulation_step(heap, frame, cfg, script) ==
    Then(IF frame.pc = "day"
         THEN IF heap[frame.game_state].day < cfg.num_days
              THEN RunStartDay(heap, frame, cfg, script)
              ELSE [heap |-> heap, frame |-> [frame EXCEPT !.pc = "done"]]
         ELSE IF frame.pc = "pull"
         THEN IF frame.pull_index < Len(frame.card_pulls)
              THEN RunPerformPull(heap, frame, cfg)
              ELSE RunEndDay(heap, frame, cfg)
         ELSE RunUpgrade(heap, frame, cfg),
         LAMBDA next : [heap |-> next.heap,
                        frame |-> [next.frame EXCEPT !.steps = @ + 1]])

RunRunning(frame) == frame.pc \in {"day", "pull", "upgrade"}

\* sum(t.amount for t in transactions if t.source == source)
TotalOf(transactions, source) ==
    SumSeq([k \in 1..Len(transactions) |->
               IF transactions[k].source = source
               THEN transactions[k].amount ELSE 0])

RECURSIVE AllUpgrades(_)
\* the upgrades_today of every snapshot, in order
AllUpgrades(snapshots) ==
    IF snapshots = <<>> THEN <<>>
    ELSE snapshots[1].upgrades_today \o AllUpgrades(Tail(snapshots))

\* total_upgrades: card id -> number of upgrade events of the card
TotalUpgrades(snapshots) ==
    LET all == AllUpgrades(snapshots)
    IN [id \in {all[k].card_id : k \in 1..Len(all)} |->
           Cardinality({k \in 1..Len(all) : all[k].card_id = id})]

\* the SimResult run_simulation returns
SimResult(heap, frame) ==
    [daily_snapshots |-> frame.daily_snapshots,
     total_bluestars |-> heap[frame.game_state].total_bluestars,
     total_coins_earned |-> TotalOf(heap[frame.coin_ledger].transactions, "income"),
     total_coins_spent |-> TotalOf(heap[frame.coin_ledger].transactions, "spend"),
     total_upgrades |-> TotalUpgrades(frame.daily_snapshots),
     pull_logs |-> heap[frame.pull_logger]]

\* what a call can see: its locals and the objects they refer to
RunView(heap, frame) ==
    IF frame.pc = "entry" THEN frame
    ELSE [frame EXCEPT !.game_state = heap[frame.game_state],
                       !.coin_ledger = heap[frame.coin_ledger],
                       !.pull_logger = heap[frame.pull_logger]]

RunsInit ==
    /\ config \in {ConfigPaid, ConfigFree}
    /\ run_heap = <<>>
    /\ run_frames = [r \in RunIds |-> NoFrame]
    /\ run_draws \in [RunIds -> {script \in RunScripts : ValidScript(config, script)}]
    /\ pc = "harness"
    /\ game_state = create_initial_state(ConfigPaid).game_state
    /\ coin_ledger = create_initial_state(ConfigPaid).coin_ledger
    /\ streak_state = ZeroStreak
    /\ day_pack_counts = <<>>
    /\ card_pulls = 0
    /\ pull_index = 0
    /\ pull = NoPull
    /\ events = <<>>
    /\ upgrade_events = <<>>
    /\ pull_logger = <<>>
    /\ daily_snapshots = <<>>
    /\ HarnessIdle

runVars == <<pc, game_state, coin_ledger, streak_state, day_pack_counts,
             card_pulls, pull_index, pull, events, upgrade_events, pull_logger,
             daily_snapshots, ledger_call, streak_call, gate_call, rarity_call,
             url_call>>

\* call r of run_simulation starts
EnterRun(r) ==
    /\ run_frames[r].pc = "entry"
    /\ \E entered \in {run_simulation_enter(run_heap, config)} :
          /\ run_heap' = entered.heap
          /\ run_frames' = [run_frames EXCEPT ![r] = entered.frame]
    /\ UNCHANGED <<config, run_draws, runVars>>

\* call r takes its next step
StepRun(r) ==
    /\ run_frames[r].pc # "entry"
    /\ RunRunning(run_frames[r])
    /\ \E next \in {run_simulation_step(run_heap, run_frames[r], config,
                                       run_draws[r])} :
          /\ run_heap' = next.heap
          /\ run_frames' = [run_frames EXCEPT ![r] = next.frame]
    /\ UNCHANGED <<config, run_draws, runVars>>

RunsNext == \E r \in RunIds : EnterRun(r) \/ StepRun(r)

SpecRuns == RunsInit /\ [][RunsNext]_vars

----------------------------------------------------------------------------
(* decide_rarity on its own: called on a collection and a StreakState, and *)
(* again after each pull that lengthens the running streak.                *)

\* longest streak of the harness
MaxRarityStreak == 33

Decimal(n, d) == FDiv(FromInt(n), FromInt(d))

CardAt(id, category, level) ==
    [id |-> id, category |-> category, level |-> level, duplicates |-> 0]

\* no cards; shared and unique both at score 0.5; unique cards only, at score
\* 1.0; shared cards only, at score 1.0
BalancedCards ==
    <<CardAt("g1", GOLD_SHARED, 50), CardAt("b1", BLUE_SHARED, 50),
      CardAt("u1", UNIQUE, 5)>>

RarityCollections ==
    {<<>>,
     BalancedCards,
     <<CardAt("u1", UNIQUE, 10)>>,
     <<CardAt("g1", GOLD_SHARED, 100), CardAt("b1", BLUE_SHARED, 100)>>}

\* base rates in hundredths: 0.70 and 0.30, 0.50 and 0.50
RarityRates == {<<70, 30>>, <<50, 50>>}

\* a config holds its base rates as the hundredths they are written in
RarityConfigs ==
    {[base_shared_rate |-> r[1], base_unique_rate |-> r[2]] @@ ConfigPaid :
        r \in RarityRates}

\* the config with its base rates as floats
FloatRates(cfg) ==
    Then(<<Decimal(cfg.base_shared_rate, 100), Decimal(cfg.base_unique_rate, 100)>>,
         LAMBDA rate : [cfg EXCEPT !.base_shared_rate = rate[1],
                                   !.base_unique_rate = rate[2]])

\* rng=None, and sources whose next random() is 0.0 or 0.5
RandomSources == {None, <<FloatZero>>, <<[m |-> <<1>>, e |-> -1]>>}

RarityInit ==
    /\ config \in RarityConfigs
    /\ pc = "harness"
    /\ game_state \in {[create_initial_state(ConfigPaid).game_state
                           EXCEPT !.day = 1, !.cards = cards] :
                          cards \in RarityCollections}
    /\ coin_ledger = create_initial_state(ConfigPaid).coin_ledger
    /\ streak_state = ZeroStreak
    /\ day_pack_counts = <<>>
    /\ card_pulls = 0
    /\ pull_index = 0
    /\ pull = NoPull
    /\ events = <<>>
    /\ upgrade_events = <<>>
    /\ pull_logger = <<>>
    /\ daily_snapshots = <<>>
    /\ RunsIdle
    /\ HarnessIdle

\* decide_rarity(game_state, config, streak, rng) for each random source;
\* before is <<>> or the streak and prob_shared of the call before.  The
\* locals do not depend on rng and are computed once for all sources.
DecideRarityCalls(streak, before) ==
    \E l \in {rarity_weights(game_state, FloatRates(config), streak)} :
        \E rng \in RandomSources :
            rarity_call' = [op |-> "decide_rarity", rng |-> rng,
                            streak |-> streak, before |-> before,
                            result |-> [returned |-> resolve_rarity(l, rng)] @@ l]

\* the first call, on the zero streak
CallDecideRarity ==
    /\ rarity_call.op = "none"
    /\ DecideRarityCalls(streak_state, <<>>)
    /\ UNCHANGED <<runOnlyVars, coin_ledger, streak_state, ledger_call,
                   streak_call, gate_call>>

\* a pull of the chosen category lengthens the running streak, and
\* decide_rarity is called on the updated StreakState
CallAfterPull(chosen) ==
    /\ rarity_call.op = "decide_rarity"
    /\ streak_state.streak_shared < MaxRarityStreak
    /\ streak_state.streak_unique < MaxRarityStreak
    /\ IF chosen = UNIQUE THEN streak_state.streak_shared = 0
                          ELSE streak_state.streak_unique = 0
    /\ streak_state' = update_rarity_streak(streak_state, chosen)
    /\ DecideRarityCalls(streak_state',
                         <<[streak |-> rarity_call.streak,
                            prob_shared |-> rarity_call.result.prob_shared]>>)
    /\ UNCHANGED <<runOnlyVars, coin_ledger, ledger_call, streak_call, gate_call>>

RarityNext ==
    \/ CallDecideRarity
    \/ \E chosen \in {GOLD_SHARED, UNIQUE} : CallAfterPull(chosen)

SpecRarity == RarityInit /\ [][RarityNext]_vars

----------------------------------------------------------------------------
(* Shareable configuration: simulation/url_config.py.  A str is a sequence *)
(* of code points and a bytes object a sequence of numbers in 0..255.  A   *)
(* call returns [value |-> v] or raises, [raised |-> exception type].      *)

Value(v) == [value |-> v]
Raised(exception) == [raised |-> exception]
IsRaised(result) == "raised" \in DOMAIN result

\* a loop over s[lo..hi] that carries a state: the state after the last
\* element, each half of the range computed before the next is entered
RECURSIVE FoldRange(_, _, _, _, _)
FoldRange(Step(_, _), state, s, lo, hi) ==
    IF lo > hi THEN state
    ELSE IF lo = hi THEN Step(state, s[lo])
    ELSE Then(FoldRange(Step, state, s, lo, (lo + hi) \div 2), LAMBDA left :
             FoldRange(Step, left, s, ((lo + hi) \div 2) + 1, hi))
Fold(Step(_, _), state, s) == FoldRange(Step, state, s, 1, Len(s))

\* the printable ASCII characters, from code point 32 to 126, the quotation
\* mark, the reverse solidus and the grave accent by name
AsciiChars ==
    <<" ", "!", "quotation mark", "#", "$", "%", "&", "'", "(", ")", "*", "+", ",", "-", ".", "/",
      "0", "1", "2", "3", "4", "5", "6", "7", "8", "9", ":", ";", "<", "=", ">", "?",
      "@", "A", "B", "C", "D", "E", "F", "G", "H", "I", "J", "K", "L", "M", "N", "O",
      "P", "Q", "R", "S", "T", "U", "V", "W", "X", "Y", "Z", "[", "reverse solidus", "]", "^", "_",
      "grave accent", "a", "b", "c", "d", "e", "f", "g", "h", "i", "j", "k", "l", "m", "n", "o",
      "p", "q", "r", "s", "t", "u", "v", "w", "x", "y", "z", "{", "|", "}", "~">>

\* ord(ch) of a printable ASCII character, and the str of a tuple of them
Ord(ch) == 31 + CHOOSE n \in 1..Len(AsciiChars) : AsciiChars[n] = ch
Str(chars) == Fold(LAMBDA text, ch : Append(text, Ord(ch)), <<>>, chars)

\* str.encode("ascii")
encode_ascii(text) ==
    IF \E n \in 1..Len(text) : text[n] > 127 THEN Raised("UnicodeEncodeError")
    ELSE Value(text)

\* the standard alphabet of binascii, and the two characters the URL-safe
\* alphabet puts in place of + and /
Base64Alphabet ==
    Str(<<"A", "B", "C", "D", "E", "F", "G", "H", "I", "J", "K", "L", "M", "N", "O", "P",
          "Q", "R", "S", "T", "U", "V", "W", "X", "Y", "Z", "a", "b", "c", "d", "e", "f",
          "g", "h", "i", "j", "k", "l", "m", "n", "o", "p", "q", "r", "s", "t", "u", "v",
          "w", "x", "y", "z", "0", "1", "2", "3", "4", "5", "6", "7", "8", "9", "+", "/">>)
BASE64_PAD == Ord("=")

\* bytes.translate of the two tables of base64.py
urlsafe_encode_translation(b) ==
    IF b = Ord("+") THEN Ord("-") ELSE IF b = Ord("/") THEN Ord("_") ELSE b
urlsafe_decode_translation(b) ==
    IF b = Ord("-") THEN Ord("+") ELSE IF b = Ord("_") THEN Ord("/") ELSE b

\* binascii.b2a_base64: three bytes make four characters, and a last group
\* of one or two bytes is padded with =; character k belongs to group
\* (k - 1) // 4
b2a_base64_char(data, k) ==
    LET first == 3 * ((k - 1) \div 4) + 1
        Byte(j) == IF j <= Len(data) THEN data[j] ELSE 0
    IN IF (k - 1) % 4 = 0 THEN Base64Alphabet[(Byte(first) \div 4) + 1]
       ELSE IF (k - 1) % 4 = 1
       THEN Base64Alphabet[(Byte(first) % 4) * 16 + (Byte(first + 1) \div 16) + 1]
       ELSE IF (k - 1) % 4 = 2
       THEN IF first + 1 > Len(data) THEN BASE64_PAD
            ELSE Base64Alphabet[(Byte(first + 1) % 16) * 4 + (Byte(first + 2) \div 64) + 1]
       ELSE IF first + 2 > Len(data) THEN BASE64_PAD
            ELSE Base64Alphabet[(Byte(first + 2) % 64) + 1]
b2a_base64(data) ==
    Fold(LAMBDA s, k : Append(s, b2a_base64_char(data, k)), <<>>,
         [k \in 1..(4 * ((Len(data) + 2) \div 3)) |-> k])

urlsafe_b64encode(data) ==
    Fold(LAMBDA s, ch : Append(s, urlsafe_encode_translation(ch)), <<>>, b2a_base64(data))

\* table_a2b_base64: the value of a character of the alphabet, 64 for the
\* rest; entry ch + 1 is for the character ch
A2BTable ==
    Fold(LAMBDA table, ch :
             Append(table, IF \E v \in 1..64 : Base64Alphabet[v] = ch
                           THEN (CHOOSE v \in 1..64 : Base64Alphabet[v] = ch) - 1
                           ELSE 64),
         <<>>, [n \in 1..256 |-> n - 1])
table_a2b_base64(ch) == A2BTable[ch + 1]

\* binascii.a2b_base64 without strict_mode, the body of its loop: characters
\* outside the alphabet are skipped, a pad counts only once two characters
\* of a group are read, and the pad that completes the group ends the loop
a2b_base64_step(st, ch) ==
    IF st.done THEN st
    ELSE IF ch = BASE64_PAD
    THEN IF st.quad_pos >= 2 /\ st.quad_pos + st.pads + 1 >= 4
         THEN [st EXCEPT !.done = TRUE]
         ELSE [st EXCEPT !.pads = IF st.quad_pos >= 2 THEN @ + 1 ELSE @]
    ELSE LET this_ch == table_a2b_base64(ch)
         IN IF this_ch >= 64 THEN st
            ELSE IF st.quad_pos = 0
            THEN [st EXCEPT !.quad_pos = 1, !.leftchar = this_ch, !.pads = 0]
            ELSE IF st.quad_pos = 1
            THEN [st EXCEPT !.quad_pos = 2, !.leftchar = this_ch % 16, !.pads = 0,
                            !.bin_data = Append(@, st.leftchar * 4 + (this_ch \div 16))]
            ELSE IF st.quad_pos = 2
            THEN [st EXCEPT !.quad_pos = 3, !.leftchar = this_ch % 4, !.pads = 0,
                            !.bin_data = Append(@, st.leftchar * 16 + (this_ch \div 4))]
            ELSE [st EXCEPT !.quad_pos = 0, !.leftchar = 0, !.pads = 0,
                            !.bin_data = Append(@, st.leftchar * 64 + this_ch)]

\* a group left unfinished at the end of the data is binascii.Error
a2b_base64(ascii_data) ==
    Then(Fold(a2b_base64_step,
              [quad_pos |-> 0, leftchar |-> 0, pads |-> 0, done |-> FALSE,
               bin_data |-> <<>>], ascii_data),
         LAMBDA st : IF ~st.done /\ st.quad_pos # 0 THEN Raised("binascii.Error")
                     ELSE Value(st.bin_data))

\* base64.b64decode in place of base64.urlsafe_b64decode
b64decode_without_translation(s) == a2b_base64(s)
urlsafe_b64decode(s) ==
    a2b_base64(Fold(LAMBDA t, ch : Append(t, urlsafe_decode_translation(ch)), <<>>, s))

\* x ^ y of two bytes, from the table of x ^ y for two half bytes; entry
\* 16 * x + y + 1 is for x and y
RECURSIVE XorBits(_, _, _)
XorBits(x, y, bits) ==
    IF bits = 0 THEN 0
    ELSE ((x + y) % 2) + 2 * XorBits(x \div 2, y \div 2, bits - 1)
XorTable ==
    Fold(LAMBDA table, n : Append(table, XorBits(n \div 16, n % 16, 4)), <<>>,
         [n \in 1..256 |-> n - 1])
Xor(x, y) ==
    XorTable[16 * (x % 16) + (y % 16) + 1]
        + 16 * XorTable[16 * (x \div 16) + (y \div 16) + 1]

\* A 32-bit word is its four bytes, least significant first, as
\* struct.pack("<L", word) writes it.
Word(b0, b1, b2, b3) == <<b0, b1, b2, b3>>
XorWord(v, w) == Word(Xor(v[1], w[1]), Xor(v[2], w[2]), Xor(v[3], w[3]), Xor(v[4], w[4]))
ShiftRight1(w) ==
    Word((w[1] \div 2) + (w[2] % 2) * 128, (w[2] \div 2) + (w[3] % 2) * 128,
         (w[3] \div 2) + (w[4] % 2) * 128, w[4] \div 2)
ShiftRight8(w) == Word(w[2], w[3], w[4], 0)
\* len(data) & 0xffffffff
PackLength(n) ==
    Word(n % 256, (n \div 256) % 256, (n \div 65536) % 256, n \div 16777216)

\* zlib.crc32: the reflected polynomial 0xEDB88320, a table entry per byte
CrcPolynomial == Word(32, 131, 184, 237)
RECURSIVE CrcShift(_, _)
CrcShift(c, steps) ==
    IF steps = 0 THEN c
    ELSE CrcShift(IF (c[1] % 2) = 1 THEN XorWord(ShiftRight1(c), CrcPolynomial)
                  ELSE ShiftRight1(c), steps - 1)
\* entry n + 1 is for the byte n
CrcTable ==
    Fold(LAMBDA table, n : Append(table, CrcShift(Word(n, 0, 0, 0), 8)), <<>>,
         [n \in 1..256 |-> n - 1])
CrcStep(c, byte) == XorWord(CrcTable[Xor(c[1], byte) + 1], ShiftRight8(c))
crc32(data) ==
    XorWord(Fold(CrcStep, Word(255, 255, 255, 255), data), Word(255, 255, 255, 255))

\* zlib.compress(data, wbits=-15): a raw deflate stream.  The stream is
\* written as one final stored block, the form zlib emits without matching
\* or Huffman coding: 01, LEN and its complement, then the data.  At level 6
\* the bytes of the stream differ; the gzip frame around it does not.
zlib_compress(data) ==
    <<1, Len(data) % 256, Len(data) \div 256,
      255 - (Len(data) % 256), 255 - (Len(data) \div 256)>> \o data

\* gzip.compress(data, compresslevel=6) when time.time() is mtime: the
\* header of _create_simple_gzip_header, the deflate stream, CRC and length
gzip_compress(data, mtime) ==
    <<31, 139, 8, 0>> \o PackLength(mtime) \o <<0, 255>>
        \o zlib_compress(data) \o crc32(data) \o PackLength(Len(data))

\* the index after the zero-terminated field that starts at i
SkipZeroTerminated(data, i) ==
    IF \E k \in i..Len(data) : data[k] = 0
    THEN (CHOOSE k \in i..Len(data) : data[k] = 0 /\ \A j \in i..(k - 1) : data[j] # 0) + 1
    ELSE Len(data) + 2

\* gzip._read_gzip_header on the bytes from i on: 0, for None, at the end of
\* the data, else the index of the first byte after the header
read_gzip_header(data, i) ==
    IF i > Len(data) THEN Value(0)
    ELSE IF i + 1 > Len(data) \/ data[i] # 31 \/ data[i + 1] # 139
    THEN Raised("BadGzipFile")
    ELSE IF i + 9 > Len(data) THEN Raised("EOFError")
    ELSE IF data[i + 2] # 8 THEN Raised("BadGzipFile")
    ELSE LET flag == data[i + 3]
             FEXTRA == ((flag \div 4) % 2) = 1
             FNAME == ((flag \div 8) % 2) = 1
             FCOMMENT == ((flag \div 16) % 2) = 1
             FHCRC == ((flag \div 2) % 2) = 1
             after_fixed == i + 10
             after_extra ==
                 IF ~FEXTRA THEN after_fixed
                 ELSE IF after_fixed + 1 > Len(data) THEN Len(data) + 2
                 ELSE after_fixed + 2 + data[after_fixed] + 256 * data[after_fixed + 1]
             after_name ==
                 IF FNAME /\ after_extra <= Len(data) + 1
                 THEN Min(SkipZeroTerminated(data, after_extra), Len(data) + 1)
                 ELSE after_extra
             after_comment ==
                 IF FCOMMENT /\ after_name <= Len(data) + 1
                 THEN Min(SkipZeroTerminated(data, after_name), Len(data) + 1)
                 ELSE after_name
             after_crc == IF FHCRC THEN after_comment + 2 ELSE after_comment
         IN IF after_extra > Len(data) + 1 \/ after_crc > Len(data) + 1
            THEN Raised("EOFError")
            ELSE Value(after_crc)

\* zlib.decompressobj(wbits=-15).decompress on the bytes from i on: the
\* data inflated, eof, and unused_data as the index it starts at; eof stays
\* False when the bytes end before the final block does.  Stored blocks are
\* inflated.  A block announced as Huffman-coded (type 1 or 2) ends the call
\* with zlib.error: the bytes that follow were written as a stored block.
Inflated(out, eof, unused) == Value([data |-> out, eof |-> eof, unused |-> unused])
RECURSIVE inflate(_, _, _)
inflate(data, i, out) ==
    IF i > Len(data) THEN Inflated(out, FALSE, i)
    ELSE LET BFINAL == (data[i] % 2) = 1
             BTYPE == (data[i] \div 2) % 4
             LEN == data[i + 1] + 256 * data[i + 2]
         IN IF BTYPE # 0 THEN Raised("zlib.error")
            ELSE IF i + 4 > Len(data) THEN Inflated(out, FALSE, Len(data) + 1)
            ELSE IF data[i + 1] + data[i + 3] # 255 \/ data[i + 2] + data[i + 4] # 255
            THEN Raised("zlib.error")
            ELSE IF i + 4 + LEN > Len(data) THEN Inflated(out, FALSE, Len(data) + 1)
            ELSE IF BFINAL
            THEN Inflated(out \o SubSeq(data, i + 5, i + 4 + LEN), TRUE, i + 5 + LEN)
            ELSE inflate(data, i + 5 + LEN, out \o SubSeq(data, i + 5, i + 4 + LEN))

\* bytes.lstrip(b"\x00") of the bytes from i on, as the index it leaves
lstrip_zeros(data, i) ==
    IF \E k \in i..Len(data) : data[k] # 0
    THEN CHOOSE k \in i..Len(data) : data[k] # 0 /\ \A j \in i..(k - 1) : data[j] = 0
    ELSE Len(data) + 1

\* gzip.decompress: member after member until the data is used up; each
\* member is a header, a deflate stream and the CRC and length of its data
RECURSIVE gzip_decompress_from(_, _, _)
gzip_decompress_from(data, i, decompressed_members) ==
    LET header == read_gzip_header(data, i)
        do == inflate(data, header.value, <<>>)
        trailer == do.value.unused
        decompressed == do.value.data
    IN IF IsRaised(header) THEN header
       ELSE IF header.value = 0 THEN Value(decompressed_members)
       ELSE IF IsRaised(do) THEN do
       ELSE IF ~do.value.eof \/ trailer + 7 > Len(data)
       THEN Raised("EOFError")
       ELSE IF SubSeq(data, trailer, trailer + 3) # crc32(decompressed)
       THEN Raised("BadGzipFile")
       ELSE IF SubSeq(data, trailer + 4, trailer + 7) # PackLength(Len(decompressed))
       THEN Raised("BadGzipFile")
       ELSE gzip_decompress_from(data, lstrip_zeros(data, trailer + 8),
                                 decompressed_members \o decompressed)

gzip_decompress(data) == gzip_decompress_from(data, 1, <<>>)

\* bytes.decode("utf-8"), the step for one byte: a lead byte announces
\* how many continuation bytes follow and the range of the first of them
decode_utf8_step(st, b) ==
    IF st.failed THEN st
    ELSE IF st.need = 0
    THEN IF b < 128 THEN [st EXCEPT !.text = Append(@, b)]
         ELSE IF b >= 194 /\ b <= 223
         THEN [st EXCEPT !.need = 1, !.code = b - 192, !.low = 128, !.high = 191]
         ELSE IF b >= 224 /\ b <= 239
         THEN [st EXCEPT !.need = 2, !.code = b - 224,
                         !.low = IF b = 224 THEN 160 ELSE 128,
                         !.high = IF b = 237 THEN 159 ELSE 191]
         ELSE IF b >= 240 /\ b <= 244
         THEN [st EXCEPT !.need = 3, !.code = b - 240,
                         !.low = IF b = 240 THEN 144 ELSE 128,
                         !.high = IF b = 244 THEN 143 ELSE 191]
         ELSE [st EXCEPT !.failed = TRUE]
    ELSE IF b < st.low \/ b > st.high THEN [st EXCEPT !.failed = TRUE]
    ELSE [st EXCEPT !.need = @ - 1, !.code = @ * 64 + (b - 128),
                    !.low = 128, !.high = 191,
                    !.text = IF st.need = 1 THEN Append(@, st.code * 64 + (b - 128))
                             ELSE @]

\* one code point per well-formed sequence of one to four bytes,
\* UnicodeDecodeError for anything else
decode_utf8(data) ==
    Then(Fold(decode_utf8_step,
              [text |-> <<>>, need |-> 0, code |-> 0, low |-> 128, high |-> 191,
               failed |-> FALSE], data),
         LAMBDA st : IF st.failed \/ st.need # 0 THEN Raised("UnicodeDecodeError")
                     ELSE Value(st.text))

\* str.encode("utf-8"): one to four bytes per code point
encode_utf8_step(bytes, c) ==
    bytes \o (IF c < 128 THEN <<c>>
              ELSE IF c < 2048 THEN <<192 + (c \div 64), 128 + (c % 64)>>
              ELSE IF c < 65536
              THEN <<224 + (c \div 4096), 128 + ((c \div 64) % 64), 128 + (c % 64)>>
              ELSE <<240 + (c \div 262144), 128 + ((c \div 4096) % 64),
                     128 + ((c \div 64) % 64), 128 + (c % 64)>>)
encode_utf8(text) == Fold(encode_utf8_step, <<>>, text)

\* The fields of SimConfig that the serialisation is followed for: two
\* integers and the unlock schedule, a dict from day to count.
SimConfigFields == {"num_days", "initial_coins", "unique_unlock_schedule"}
FieldName(field) ==
    IF field = "num_days" THEN Str(<<"n", "u", "m", "_", "d", "a", "y", "s">>)
    ELSE IF field = "initial_coins"
    THEN Str(<<"i", "n", "i", "t", "i", "a", "l", "_", "c", "o", "i", "n", "s">>)
    ELSE Str(<<"u", "n", "i", "q", "u", "e", "_", "u", "n", "l", "o", "c", "k", "_",
               "s", "c", "h", "e", "d", "u", "l", "e">>)

\* str(n) of an integer n >= 0
RECURSIVE Digits(_)
Digits(n) ==
    IF n < 10 THEN <<Ord("0") + n>>
    ELSE Append(Digits(n \div 10), Ord("0") + (n % 10))
Quoted(text) == <<Ord("quotation mark")>> \o text \o <<Ord("quotation mark")>>

\* the members of a dict[int, int] in ascending order of the keys; a JSON
\* object key is a string, so the key is written in quotes
RECURSIVE DumpSchedule(_, _)
DumpSchedule(schedule, days) ==
    IF days = {} THEN <<>>
    ELSE LET day == CHOOSE d \in days : \A e \in days : d <= e
         IN Quoted(Digits(day)) \o <<Ord(":")>> \o Digits(schedule[day])
                \o (IF days = {day} THEN <<>> ELSE <<Ord(",")>>)
                \o DumpSchedule(schedule, days \ {day})

\* SimConfig.model_dump_json(): the fields in order, without whitespace
model_dump_json(cfg) ==
    <<Ord("{")>> \o Quoted(FieldName("num_days")) \o <<Ord(":")>> \o Digits(cfg.num_days)
        \o <<Ord(",")>> \o Quoted(FieldName("initial_coins")) \o <<Ord(":")>>
        \o Digits(cfg.initial_coins)
        \o <<Ord(",")>> \o Quoted(FieldName("unique_unlock_schedule")) \o <<Ord(":")>>
        \o <<Ord("{")>>
        \o DumpSchedule(cfg.unique_unlock_schedule, DOMAIN cfg.unique_unlock_schedule)
        \o <<Ord("}"), Ord("}")>>

\* the character at i, or -1 past the end of the text
At(text, i) == IF i >= 1 /\ i <= Len(text) THEN text[i] ELSE -1
IsDigit(c) == c >= Ord("0") /\ c <= Ord("9")
ValidationError == Raised("ValidationError")
\* what a parsing step hands on: the value read and the index after it
Parsed(v, next) == [value |-> v, next |-> next]

RECURSIVE ScanDigits(_, _, _)
ScanDigits(text, i, n) ==
    IF IsDigit(At(text, i)) THEN ScanDigits(text, i + 1, 10 * n + (text[i] - Ord("0")))
    ELSE Parsed(n, i)
\* a JSON number that is an integer >= 0: 0, or digits not starting with 0
ParseInt(text, i) ==
    IF ~IsDigit(At(text, i)) THEN ValidationError
    ELSE IF At(text, i) = Ord("0") /\ IsDigit(At(text, i + 1)) THEN ValidationError
    ELSE ScanDigits(text, i, 0)

\* a JSON string without escapes: the characters between two quotes
RECURSIVE ScanString(_, _, _)
ScanString(text, i, chars) ==
    IF At(text, i) = -1 \/ At(text, i) = Ord("reverse solidus") \/ At(text, i) < 32
    THEN ValidationError
    ELSE IF At(text, i) = Ord("quotation mark") THEN Parsed(chars, i + 1)
    ELSE ScanString(text, i + 1, Append(chars, text[i]))
ParseString(text, i) ==
    IF At(text, i) # Ord("quotation mark") THEN ValidationError ELSE ScanString(text, i + 1, <<>>)

\* dict[int, int] from a JSON object: each key is a string that must read
\* as an integer, and a key that comes twice keeps its last value
RECURSIVE ParseScheduleMembers(_, _, _)
ParseScheduleMembers(text, i, schedule) ==
    LET key == ParseString(text, i)
        day == ParseInt(key.value, 1)
        count == ParseInt(text, key.next + 1)
        updated == [d \in DOMAIN schedule \cup {day.value} |->
                       IF d = day.value THEN count.value ELSE schedule[d]]
    IN IF IsRaised(key) THEN ValidationError
       ELSE IF IsRaised(day) \/ day.next # Len(key.value) + 1 THEN ValidationError
       ELSE IF At(text, key.next) # Ord(":") \/ IsRaised(count) THEN ValidationError
       ELSE IF At(text, count.next) = Ord(",")
       THEN ParseScheduleMembers(text, count.next + 1, updated)
       ELSE IF At(text, count.next) = Ord("}") THEN Parsed(updated, count.next + 1)
       ELSE ValidationError
ParseSchedule(text, i) ==
    IF At(text, i) # Ord("{") THEN ValidationError
    ELSE IF At(text, i + 1) = Ord("}") THEN Parsed(<<>>, i + 2)
    ELSE ParseScheduleMembers(text, i + 1, <<>>)

\* the members of the top-level object, in any order; fields maps the names
\* read so far to their values
RECURSIVE ParseMembers(_, _, _)
ParseMembers(text, i, fields) ==
    LET key == ParseString(text, i)
        known == {f \in SimConfigFields : FieldName(f) = key.value}
        field == CHOOSE f \in known : TRUE
        parsed == IF field = "unique_unlock_schedule"
                  THEN ParseSchedule(text, key.next + 1)
                  ELSE ParseInt(text, key.next + 1)
        updated == [f \in DOMAIN fields \cup {field} |->
                       IF f = field THEN parsed.value ELSE fields[f]]
    IN IF IsRaised(key) \/ known = {} THEN ValidationError
       ELSE IF At(text, key.next) # Ord(":") \/ IsRaised(parsed) THEN ValidationError
       ELSE IF At(text, parsed.next) = Ord(",")
       THEN ParseMembers(text, parsed.next + 1, updated)
       ELSE IF At(text, parsed.next) = Ord("}") THEN Parsed(updated, parsed.next + 1)
       ELSE ValidationError

\* SimConfig.model_validate_json(json_str): the text must be one object
\* that gives every field a value of its type, and nothing after it
model_validate_json(json_str) ==
    LET members == IF At(json_str, 1) # Ord("{") THEN ValidationError
                   ELSE IF At(json_str, 2) = Ord("}") THEN Parsed(<<>>, 3)
                   ELSE ParseMembers(json_str, 2, <<>>)
    IN IF IsRaised(members) \/ members.next # Len(json_str) + 1 THEN ValidationError
       ELSE IF DOMAIN members.value # SimConfigFields THEN ValidationError
       ELSE Value([num_days |-> members.value.num_days,
                   initial_coins |-> members.value.initial_coins,
                   unique_unlock_schedule |-> members.value.unique_unlock_schedule])

\* encode_config(config) called when time.time() is mtime
encode_config(cfg, mtime) ==
    Then(encode_utf8(model_dump_json(cfg)), LAMBDA json_bytes :
        Then(gzip_compress(json_bytes, mtime), LAMBDA compressed :
            urlsafe_b64encode(compressed)))

\* the body of the try of decode_config: the first stage that raises ends it
decode_stages(encoded) ==
    Then(encode_ascii(encoded), LAMBDA ascii :
        IF IsRaised(ascii) THEN ascii
        ELSE Then(urlsafe_b64decode(ascii.value), LAMBDA decoded :
            IF IsRaised(decoded) THEN decoded
            ELSE Then(gzip_decompress(decoded.value), LAMBDA decompressed :
                IF IsRaised(decompressed) THEN decompressed
                ELSE Then(decode_utf8(decompressed.value), LAMBDA json_str :
                    IF IsRaised(json_str) THEN json_str
                    ELSE model_validate_json(json_str.value)))))

\* decode_config without its except clause
decode_config_without_except(encoded) == decode_stages(encoded)
\* decode_config: every exception of the body is raised again as
\* ValueError("Failed to decode config: ...") from the exception
decode_config(encoded) ==
    Then(decode_stages(encoded), LAMBDA result :
        IF IsRaised(result)
        THEN [raised |-> "ValueError", message |-> "Failed to decode config",
              cause |-> result.raised]
        ELSE result)

----------------------------------------------------------------------------
(* encode_config and decode_config on their own: a configuration is        *)
(* encoded at some time of the clock, and decode_config is called on the   *)
(* string, on the string with one character replaced, inserted or cut, and *)
(* on strings no call of encode_config returned.  The calls are pure, so a *)
(* call is followed from the idle harness or from the call it takes its    *)
(* argument from.                                                          *)

\* largest day of an unlock schedule; a day of the schedule unlocks one hero
MaxScheduleDay == 2
UrlSchedules == {[day \in days |-> 1] : days \in SUBSET (1..MaxScheduleDay)}
UrlConfigs ==
    {[num_days |-> 30, initial_coins |-> coins, unique_unlock_schedule |-> schedule] :
        coins \in {0, 1250}, schedule \in UrlSchedules}
\* time.time() at the calls of encode_config
UrlClocks == {1793836800, 1793836801}

\* the character of the URL-safe alphabet after ch; A after a pad
NextCharacter(ch) ==
    IF table_a2b_base64(urlsafe_decode_translation(ch)) = 64 THEN Ord("A")
    ELSE LET value == table_a2b_base64(urlsafe_decode_translation(ch))
         IN urlsafe_encode_translation(Base64Alphabet[((value + 1) % 64) + 1])
\* characters put into a string: one outside the alphabet, at any place,
\* and one of the alphabet and one that is not ASCII, in front or at the end
InsertedCharacters(s, i) ==
    {Ord("!")} \cup (IF i \in {0, Len(s)} THEN {Ord("A"), 233} ELSE {})

Substitute(s, i) == [s EXCEPT ![i] = NextCharacter(s[i])]
Insert(s, i, ch) == SubSeq(s, 1, i) \o <<ch>> \o SubSeq(s, i + 1, Len(s))
Truncate(s, length) == SubSeq(s, 1, length)
\* the strings a string is corrupted to, each with the kind of corruption
Corruptions(s) ==
    {[kind |-> "substituted", encoded |-> Substitute(s, i)] : i \in 1..Len(s)}
        \cup UNION {{[kind |-> "inserted", encoded |-> Insert(s, i, ch)] :
                        ch \in InsertedCharacters(s, i)} : i \in 0..Len(s)}
        \cup {[kind |-> "truncated", encoded |-> Truncate(s, length)] :
                 length \in 0..(Len(s) - 1)}

\* urlsafe_b64encode(gzip.compress(data)) of data that is no configuration
Frame(data) == urlsafe_b64encode(gzip_compress(data, 1793836800))
\* the string of tests/test_url_config.py::test_corrupted_string
NotValidBase64 ==
    Str(<<"n", "o", "t", "_", "v", "a", "l", "i", "d", "_", "b", "a", "s", "e", "6", "4",
          "!", "!", "!">>)
\* strings no call of encode_config returned: a document without fields, an
\* array, bytes that are not UTF-8, a member after the member
MalformedStrings ==
    {NotValidBase64,
     Frame(Str(<<"{", "}">>)),
     Frame(Str(<<"[", "]">>)),
     Frame(<<255>>),
     Frame(<<>>),
     urlsafe_b64encode(gzip_compress(Str(<<"{", "}">>), 1793836800)
                           \o gzip_compress(Str(<<"{", "}">>), 1793836800))}

UrlInit ==
    /\ config \in UrlConfigs
    /\ pc = "harness"
    /\ game_state = create_initial_state(ConfigPaid).game_state
    /\ coin_ledger = create_initial_state(ConfigPaid).coin_ledger
    /\ streak_state = ZeroStreak
    /\ day_pack_counts = <<>>
    /\ card_pulls = 0
    /\ pull_index = 0
    /\ pull = NoPull
    /\ events = <<>>
    /\ upgrade_events = <<>>
    /\ pull_logger = <<>>
    /\ daily_snapshots = <<>>
    /\ RunsIdle
    /\ HarnessIdle

\* every variable but url_call
urlOnlyVars == <<runsVars, config, pc, game_state, coin_ledger, streak_state,
                 day_pack_counts, card_pulls, pull_index, pull, events, upgrade_events,
                 pull_logger, daily_snapshots, ledger_call, streak_call, gate_call,
                 rarity_call>>

\* encoded = encode_config(config)
CallEncodeConfig(mtime) ==
    /\ url_call = NoCall
    /\ url_call' = [op |-> "encode_config", mtime |-> mtime,
                    returned |-> encode_config(config, mtime)]
    /\ UNCHANGED urlOnlyVars

\* decode_config(encoded) on what encode_config returned, corrupted or not
CallDecodeConfig ==
    /\ url_call.op = "encode_config"
    /\ \E input \in Corruptions(url_call.returned)
                       \cup {[kind |-> "intact", encoded |-> url_call.returned]} :
          url_call' = [op |-> "decode_config", kind |-> input.kind,
                       original |-> url_call.returned, encoded |-> input.encoded,
                       outcome |-> decode_config(input.encoded)]
    /\ UNCHANGED urlOnlyVars

\* decode_config on the empty string or on a malformed string
CallDecodeMalformed ==
    /\ url_call = NoCall
    /\ \E encoded \in MalformedStrings \cup {<<>>} :
          url_call' = [op |-> "decode_config",
                       kind |-> IF encoded = <<>> THEN "empty" ELSE "malformed",
                       original |-> <<>>, encoded |-> encoded,
                       outcome |-> decode_config(encoded)]
    /\ UNCHANGED urlOnlyVars

UrlNext ==
    \/ \E mtime \in UrlClocks : CallEncodeConfig(mtime)
    \/ CallDecodeConfig
    \/ CallDecodeMalformed

SpecUrl == UrlInit /\ [][UrlNext]_vars

----------------------------------------------------------------------------
(* Properties.  Eligibility, the gate ceiling and the priority order are   *)
(* restated here from the specification's wording.                         *)

Cards == game_state.cards
CardIdx == 1..Len(game_state.cards)
Balance == coin_ledger.balance
CostTable(card) == config.upgrade_tables[card.category]
Last(s) == s[Len(s)]

\* the gate ceiling: max_unique_level of 100 x the mean of the gold and blue
\* category progressions
GateCeiling(cards) ==
    get_max_unique_level(AvgSharedLevel(cards), config.progression_mapping)

\* the four eligibility conditions, on the cards and the ledger balance given
EligibleIn(i, cards, balance) ==
    LET card == cards[i]
    IN /\ card.level < MaxLevelOf(card, config)
       /\ card.duplicates >= CostTable(card).duplicate_costs[card.level]
       /\ balance >= CostTable(card).coin_costs[card.level]
       /\ (card.category = UNIQUE => card.level < GateCeiling(cards))

Eligible(i) == EligibleIn(i, Cards, Balance)

\* every condition but the named one holds
BlockedOnlyByCoins(i) ==
    /\ Cards[i].level < MaxLevelOf(Cards[i], config)
    /\ Cards[i].duplicates >= CostTable(Cards[i]).duplicate_costs[Cards[i].level]
    /\ Balance < CostTable(Cards[i]).coin_costs[Cards[i].level]
    /\ (Cards[i].category = UNIQUE => Cards[i].level < GateCeiling(Cards))

\* a step that executes an upgrade of card i
Upgrades(i) == i \in CardIdx /\ game_state'.cards[i].level # Cards[i].level
SomeUpgrade == \E i \in CardIdx : Upgrades(i)

\* C1: every card's duplicates and the ledger balance are >= 0 in every state
\* of a run, in particular after each executed upgrade.
C1_ResourcesNonNegative ==
    /\ \A i \in CardIdx : Cards[i].duplicates >= 0
    /\ Balance >= 0

\* an upgrade with positive costs has just spent the last coin and the card's
\* last duplicate
C1_Witness ==
    /\ pc = "upgrade" /\ events # <<>>
    /\ Last(events).dupes_spent > 0 /\ Last(events).coins_spent > 0
    /\ Balance = 0
    /\ \E i \in CardIdx : Cards[i].id = Last(events).card_id /\ Cards[i].duplicates = 0

\* C2: every shared card's level is <= max_shared_level and every unique
\* card's level is <= max_unique_level, in every state of a run.
C2_LevelWithinMax ==
    \A i \in CardIdx : Cards[i].level <= MaxLevelOf(Cards[i], config)

\* a card upgraded to its maximum that could pay for one more level
C2_Witness ==
    \E i \in CardIdx :
        /\ Cards[i].level = MaxLevelOf(Cards[i], config) /\ Cards[i].level >= 2
        /\ CostTable(Cards[i]).duplicate_costs[Cards[i].level] > 0
        /\ Cards[i].duplicates >= CostTable(Cards[i]).duplicate_costs[Cards[i].level]
        /\ Balance >= CostTable(Cards[i]).coin_costs[Cards[i].level]

\* C3: when attempt_upgrades has returned (the pull loop is back at its head
\* after a pull), no card satisfies all the eligibility conditions.
C3_FixedPoint ==
    (pc = "pull" /\ pull_index >= 1) => \A i \in CardIdx : ~Eligible(i)

\* attempt_upgrades has returned, upgrades were executed that day, and a card
\* is short of coins only
C3_Witness ==
    /\ pc = "pull" /\ pull_index >= 1
    /\ Len(upgrade_events) >= 2
    /\ \E i \in CardIdx : BlockedOnlyByCoins(i)

CategoryRank(category) ==
    IF category = UNIQUE THEN 1 ELSE IF category = GOLD_SHARED THEN 2 ELSE 3

\* card j comes before card i in the priority order of the current state
Before(j, i) ==
    \/ CategoryRank(Cards[j].category) < CategoryRank(Cards[i].category)
    \/ /\ Cards[j].category = Cards[i].category
       /\ \/ Cards[j].level < Cards[i].level
          \/ Cards[j].level = Cards[i].level /\ j < i

\* C4: every executed upgrade is of a card that is eligible in the state at
\* that moment, no card before it in that state's priority order (UNIQUE, GOLD,
\* BLUE; ascending level; collection order) is eligible, and one step upgrades
\* one card by one level.
C4_FirstEligibleInPriorityOrder ==
    [][\A i \in CardIdx :
          Upgrades(i) =>
             /\ Eligible(i)
             /\ \A j \in CardIdx : Before(j, i) => ~Eligible(j)
             /\ game_state'.cards[i].level = Cards[i].level + 1
             /\ \A j \in CardIdx \ {i} : ~Upgrades(j)]_vars

\* the card just upgraded is later in the collection than a card of its
\* category that has a higher level and is eligible
C4_Witness ==
    /\ pc = "upgrade" /\ events # <<>>
    /\ \E i, j \in CardIdx :
          /\ Cards[i].id = Last(events).card_id
          /\ j < i /\ Cards[j].category = Cards[i].category
          /\ Cards[j].level > Last(events).old_level
          /\ Eligible(j)

MappingNonDecreasing ==
    LET u == config.progression_mapping.unique_levels
    IN u # <<>> /\ u[1] >= 1 /\ \A k \in 1..(Len(u) - 1) : u[k] <= u[k + 1]

\* C5: a unique card is upgraded only when its level is below the gate ceiling
\* of the state at that moment; and with non-decreasing unique_levels starting
\* at >= 1, every unique card's level is <= the current gate ceiling.
C5_Gating ==
    /\ [][\A i \in CardIdx :
             (Upgrades(i) /\ Cards[i].category = UNIQUE) =>
                Cards[i].level < GateCeiling(Cards)]_vars
    /\ [](MappingNonDecreasing =>
             \A i \in CardIdx :
                Cards[i].category = UNIQUE => Cards[i].level <= GateCeiling(Cards))

\* an upgraded unique card below its maximum that has the duplicates and the
\* coins for the next level and is held back by the gate alone
C5_Witness ==
    \E i \in CardIdx :
        /\ Cards[i].category = UNIQUE /\ Cards[i].level >= 2
        /\ Cards[i].level < config.max_unique_level
        /\ Cards[i].level = GateCeiling(Cards)
        /\ Cards[i].duplicates >= CostTable(Cards[i]).duplicate_costs[Cards[i].level]
        /\ CostTable(Cards[i]).duplicate_costs[Cards[i].level] > 0
        /\ Balance >= CostTable(Cards[i]).coin_costs[Cards[i].level]

\* a step that resolves a pull (one pass of the pull loop begins)
ResolvesPull == pull_index' = pull_index + 1

IncomeCredited ==
    /\ Len(coin_ledger'.transactions) = Len(coin_ledger.transactions) + 1
    /\ Last(coin_ledger'.transactions).source = "income"

\* C6: pulls are processed one at a time: a pull's duplicates and coins are
\* credited when it is resolved and its upgrade loop starts right then; pull
\* k+1 is resolved only from the fixed point of pull k's loop; upgrades happen
\* only inside the loop of the pull resolved last; and income is credited only
\* by resolving a pull, never once its loop has started.
C6_PullThenDrain ==
    [][/\ ResolvesPull =>
             /\ pc = "pull" /\ pc' = "upgrade" /\ events' = <<>>
             /\ pull'.card \in CardIdx
             /\ game_state'.cards[pull'.card].duplicates
                   = Cards[pull'.card].duplicates + pull'.dupes
             /\ IncomeCredited
             /\ coin_ledger'.balance = Balance + pull'.coins
             /\ pull_index >= 1 => \A i \in CardIdx : ~Eligible(i)
       /\ (SomeUpgrade \/ Len(events') > Len(events)) =>
             /\ pc = "upgrade" /\ pull_index >= 1
             /\ pull_index' = pull_index /\ pull' = pull
             /\ events' = Append(events, Last(events'))
       /\ IncomeCredited => (ResolvesPull /\ pc = "pull")]_vars

\* the second pull of a day is draining its upgrades after the first pull of
\* that day drained its own
C6_Witness ==
    /\ pc = "upgrade" /\ pull_index = 2 /\ events # <<>>
    /\ pull_logger # <<>>
    /\ Last(pull_logger).day = game_state.day
    /\ Last(pull_logger).upgrades # <<>>

\* C7: the StreakState passed to the first pull of the run is all-zero, the
\* one passed to any later pull is the one the preceding pull returned (also
\* across days), and the returned one becomes the local streak_state.
C7_StreakThreading ==
    [][ResolvesPull =>
          /\ pull'.streak_arg =
                (IF pull_logger = <<>> /\ pull = NoPull THEN ZeroStreak
                 ELSE pull.updated_streak)
          /\ streak_state' = pull'.updated_streak]_vars

\* the first pull of day 2 was handed a streak built up on day 1
C7_Witness ==
    /\ pc = "upgrade" /\ game_state.day = 2 /\ pull_index = 1
    /\ pull.streak_arg.streak_shared + pull.streak_arg.streak_unique >= 2

IsShared(category) == category \in {GOLD_SHARED, BLUE_SHARED}

\* C8: update_rarity_streak returns the chosen rarity's streak plus 1 and the
\* other rarity's streak 0, gold and blue both counting as shared; and in a
\* chain of updates that started from zero counters at most one of the two
\* counters is nonzero.
C8_StreakUpdate ==
    /\ streak_call.op = "update" =>
          IF IsShared(streak_call.chosen)
          THEN /\ streak_state.streak_shared = streak_call.input.streak_shared + 1
               /\ streak_state.streak_unique = 0
          ELSE /\ streak_state.streak_unique = streak_call.input.streak_unique + 1
               /\ streak_state.streak_shared = 0
    /\ (streak_call.op # "none" /\ streak_call.origin.streak_shared = 0
           /\ streak_call.origin.streak_unique = 0) =>
          (streak_state.streak_shared = 0 \/ streak_state.streak_unique = 0)

\* from zero, a run of shared choices ending in a blue one was just broken
\* by a unique choice
C8_Witness ==
    /\ streak_call.op = "update"
    /\ streak_call.origin.streak_shared = 0 /\ streak_call.origin.streak_unique = 0
    /\ streak_call.input.streak_shared >= 2
    /\ streak_call.chosen = UNIQUE
    /\ streak_state.streak_unique = 1 /\ streak_state.streak_shared = 0

\* C9: spend with balance < amount returns False and leaves the ledger as it
\* was; otherwise it returns True, takes exactly amount off the balance and
\* appends exactly one spend transaction.
C9_SpendContract ==
    ledger_call.op = "spend" =>
        LET before == ledger_call.before
        IN IF before.balance < ledger_call.amount
           THEN ledger_call.returned = FALSE /\ coin_ledger = before
           ELSE /\ ledger_call.returned = TRUE
                /\ coin_ledger.balance = before.balance - ledger_call.amount
                /\ coin_ledger.transactions =
                      Append(before.transactions,
                             CoinTransaction(ledger_call.amount, "spend",
                                             ledger_call.card_id, ledger_call.day))

\* a spend of exactly the balance, on a ledger that already has a transaction
C9_Witness ==
    /\ ledger_call.op = "spend"
    /\ ledger_call.amount > 0
    /\ ledger_call.before.balance = ledger_call.amount
    /\ ledger_call.before.transactions # <<>>
    /\ ledger_call.returned = TRUE

\* C10: an executed upgrade of card i at level L takes duplicate_costs[L-1]
\* off its duplicates, raises its level to L+1, takes coin_costs[L-1] off the
\* balance with one spend transaction, adds bluestar_rewards[L-1] to
\* total_bluestars, changes nothing else of the game state, and emits the
\* event recording these and the day.
C10_UpgradeFrame ==
    [][\A i \in CardIdx :
          Upgrades(i) =>
             LET L == Cards[i].level
                 t == CostTable(Cards[i])
             IN /\ game_state'.cards =
                      [Cards EXCEPT ![i] = [@ EXCEPT
                          !.level = L + 1,
                          !.duplicates = @ - t.duplicate_costs[L]]]
                /\ game_state' = [game_state EXCEPT
                      !.cards = game_state'.cards,
                      !.total_bluestars = @ + t.bluestar_rewards[L]]
                /\ coin_ledger'.balance = Balance - t.coin_costs[L]
                /\ coin_ledger'.transactions =
                      Append(coin_ledger.transactions,
                             CoinTransaction(t.coin_costs[L], "spend", Cards[i].id,
                                             game_state.day))
                /\ events' =
                      Append(events,
                             UpgradeEvent(Cards[i].id, L, L + 1, t.duplicate_costs[L],
                                          t.coin_costs[L], t.bluestar_rewards[L],
                                          game_state.day))]_vars

\* an upgrade from level 2 with positive costs and reward has just been done
\* while another card holds duplicates
C10_Witness ==
    /\ pc = "upgrade" /\ events # <<>>
    /\ Last(events).old_level = 2
    /\ Last(events).dupes_spent > 0 /\ Last(events).coins_spent > 0
    /\ Last(events).bluestars_earned > 0
    /\ \E j \in CardIdx : Cards[j].id # Last(events).card_id /\ Cards[j].duplicates > 0

----------------------------------------------------------------------------
(* Termination of attempt_upgrades *)

\* the events of the running (or last returned) attempt_upgrades call that
\* upgraded card i
EventsOf(i) == {k \in 1..Len(events) : events[k].card_id = Cards[i].id}

\* the level card i had when that call began: the old level of its first event
StartLevel(i) ==
    IF EventsOf(i) = {} THEN Cards[i].level
    ELSE events[CHOOSE k \in EventsOf(i) : \A m \in EventsOf(i) : k <= m].old_level

\* the sum over cards of (category max level - level when the call began)
UpgradeBudget ==
    SumSeq([i \in CardIdx |-> MaxLevelOf(Cards[i], config) - StartLevel(i)])

\* C11: one call of attempt_upgrades executes at most the sum over cards of
\* (category max level - level at the start of the call) upgrades, whatever the
\* cost table (zero-cost tables included), so its loop reaches the scan that
\* finds no eligible card.
C11_UpgradesBounded ==
    pc \in {"upgrade", "pull"} => Len(events) <= UpgradeBudget

\* a call on zero-cost tables has returned after using the whole budget
C11_Witness ==
    /\ config = ConfigFree
    /\ pc = "pull"
    /\ Len(events) >= 2
    /\ Len(events) = UpgradeBudget

----------------------------------------------------------------------------
(* Floor lookup of the gate *)

StrictlyIncreasing(s) == \A k \in 1..(Len(s) - 1) : s[k] < s[k + 1]

\* the positions of the shared levels that are <= avg
Qualifying(mapping, avg) ==
    {k \in 1..Len(mapping.shared_levels) : LessEq(mapping.shared_levels[k], avg)}

\* C12: for a mapping with sequences of equal length and strictly increasing
\* shared_levels, get_max_unique_level returns the unique level paired with the
\* largest shared level <= avg, and the first unique level when avg is below
\* every shared level.
C12_FloorLookup ==
    gate_call.op = "get_max_unique_level" =>
        LET mapping == config.progression_mapping
            shared == mapping.shared_levels
            unique == mapping.unique_levels
            qualifying == Qualifying(mapping, gate_call.avg)
        IN (shared # <<>> /\ Len(shared) = Len(unique) /\ StrictlyIncreasing(shared)) =>
              IF qualifying = {}
              THEN gate_call.returned = unique[1]
              ELSE \E k \in qualifying :
                      /\ \A j \in qualifying : shared[j] <= shared[k]
                      /\ gate_call.returned = unique[k]

\* an average strictly between the second and third shared level of a sorted
\* mapping returns the second unique level, which no other entry carries
C12_Witness ==
    /\ gate_call.op = "get_max_unique_level"
    /\ LET mapping == config.progression_mapping
       IN /\ Len(mapping.shared_levels) = 3
          /\ StrictlyIncreasing(mapping.shared_levels)
          /\ Qualifying(mapping, gate_call.avg) = {1, 2}
          /\ ~LessEq(mapping.shared_levels[2] + 1, gate_call.avg)
          /\ gate_call.avg.num % gate_call.avg.den # 0
          /\ gate_call.returned = mapping.unique_levels[2]
          /\ mapping.unique_levels[2] \notin
                {mapping.unique_levels[1], mapping.unique_levels[3]}

\* below every shared level the first unique level is returned
C12_WitnessBelow ==
    /\ gate_call.op = "get_max_unique_level"
    /\ LET mapping == config.progression_mapping
       IN /\ Len(mapping.shared_levels) >= 2
          /\ StrictlyIncreasing(mapping.shared_levels)
          /\ Qualifying(mapping, gate_call.avg) = {}
          /\ gate_call.returned = mapping.unique_levels[1]
          /\ mapping.unique_levels[1] # mapping.unique_levels[2]

----------------------------------------------------------------------------
(* Daily snapshots *)

UniqueCount == Len(Filter(Cards, UNIQUE))

RECURSIVE SumOver(_, _)
SumOver(f, keys) ==
    IF keys = {} THEN 0
    ELSE LET k == CHOOSE x \in keys : TRUE IN f[k] + SumOver(f, keys \ {k})

\* the sum of the unlock-schedule entries whose day key is <= d
ScheduledBy(d) ==
    SumOver(config.unique_unlock_schedule,
            {k \in DOMAIN config.unique_unlock_schedule : k <= d})

\* a step that begins a day
BeginsDay == game_state'.day # game_state.day

\* C13: from the unlock step of day d to the end of the day the collection
\* holds as many UNIQUE cards as the unlock schedule grants up to d, the value
\* day d's snapshot stores as total_unique_unlocked; the step only appends
\* UNIQUE cards of level 1 with zero duplicates, and no pull of the day is
\* resolved before it.
C13_UnlockStep ==
    /\ [](/\ game_state.day >= 1 => UniqueCount = ScheduledBy(game_state.day)
          /\ \A d \in 1..Len(daily_snapshots) :
                /\ daily_snapshots[d].day = d
                /\ daily_snapshots[d].total_unique_unlocked = ScheduledBy(d))
    /\ [][BeginsDay =>
            /\ game_state'.day = game_state.day + 1
            /\ SubSeq(game_state'.cards, 1, Len(Cards)) = Cards
            /\ \A k \in (Len(Cards) + 1)..Len(game_state'.cards) :
                  /\ game_state'.cards[k].category = UNIQUE
                  /\ game_state'.cards[k].level = 1
                  /\ game_state'.cards[k].duplicates = 0
            /\ pull_index' = 0
            /\ pull_logger' = pull_logger
            /\ coin_ledger' = coin_ledger]_vars

\* day 2 unlocked a second hero, which was then pulled and upgraded before the
\* day's snapshot counted two unlocked heroes
C13_Witness ==
    /\ Len(daily_snapshots) = 2
    /\ daily_snapshots[1].total_unique_unlocked = 1
    /\ daily_snapshots[2].total_unique_unlocked = 2
    /\ UniqueCount = 2
    /\ \E i \in CardIdx : Cards[i].id = <<"hero", 2>> /\ Cards[i].level > 1

\* the bluestars_earned of a list of upgrade events, summed
BluestarsOf(evts) == SumSeq([k \in 1..Len(evts) |-> evts[k].bluestars_earned])

\* the same over the upgrades the pull log holds for day d
LoggedBluestars(d) ==
    SumSeq([k \in 1..Len(pull_logger) |->
               IF pull_logger[k].day = d THEN BluestarsOf(pull_logger[k].upgrades)
               ELSE 0])

\* total_bluestars at the end of day d; the configured start for d = 0
BluestarsAtEndOf(d) ==
    IF d = 0 THEN config.initial_bluestars ELSE daily_snapshots[d].total_bluestars

\* C14: bluestars come from upgrades only: total_bluestars changes only in a
\* step that executes an upgrade, by the reward its event records, and every
\* snapshot's bluestars_earned_today is the sum of bluestars_earned over the
\* day's upgrade events and the difference of total_bluestars to the previous
\* day's (to config.initial_bluestars on day 1).
C14_BluestarsFromUpgrades ==
    /\ [](\A d \in 1..Len(daily_snapshots) :
             LET snapshot == daily_snapshots[d]
             IN /\ snapshot.bluestars_earned_today = BluestarsOf(snapshot.upgrades_today)
                /\ snapshot.bluestars_earned_today = LoggedBluestars(d)
                /\ snapshot.bluestars_earned_today =
                      snapshot.total_bluestars - BluestarsAtEndOf(d - 1))
    /\ [][game_state'.total_bluestars # game_state.total_bluestars =>
            /\ SomeUpgrade
            /\ Len(events') = Len(events) + 1
            /\ game_state'.total_bluestars =
                  game_state.total_bluestars + Last(events').bluestars_earned]_vars

\* a run that starts with bluestars and earns some on each of its two days
C14_Witness ==
    /\ config.initial_bluestars > 0
    /\ Len(daily_snapshots) = 2
    /\ daily_snapshots[1].bluestars_earned_today > 0
    /\ daily_snapshots[2].bluestars_earned_today > 0
    /\ Len(daily_snapshots[1].upgrades_today) >= 2

\* the amounts of the ledger's transactions of day d with the given source
LedgerAmount(d, source) ==
    SumSeq([k \in 1..Len(coin_ledger.transactions) |->
               LET t == coin_ledger.transactions[k]
               IN IF t.day = d /\ t.source = source THEN t.amount ELSE 0])

\* the coin balance at the end of day d; the configured start for d = 0
BalanceAtEndOf(d) ==
    IF d = 0 THEN config.initial_coins ELSE daily_snapshots[d].coins_balance

\* C15: every snapshot's coins_earned_today and coins_spent_today are the sums
\* of the ledger's income and spend transactions of that day, and its
\* coins_balance is the previous day's (config.initial_coins before day 1)
\* plus the earned minus the spent.
C15_SnapshotCoins ==
    \A d \in 1..Len(daily_snapshots) :
        LET snapshot == daily_snapshots[d]
        IN /\ snapshot.coins_earned_today = LedgerAmount(d, "income")
           /\ snapshot.coins_spent_today = LedgerAmount(d, "spend")
           /\ snapshot.coins_balance =
                 BalanceAtEndOf(d - 1) + snapshot.coins_earned_today
                 - snapshot.coins_spent_today

\* coins were earned and spent on both days of a run
C15_Witness ==
    /\ Len(daily_snapshots) = 2
    /\ \A d \in 1..2 : /\ daily_snapshots[d].coins_earned_today > 0
                       /\ daily_snapshots[d].coins_spent_today > 0
    /\ daily_snapshots[1].coins_balance # daily_snapshots[2].coins_balance

----------------------------------------------------------------------------
(* The rarity decision *)

DeterministicCall == rarity_call.op = "decide_rarity" /\ rarity_call.rng = None

ZeroStreaks(streak) == streak.streak_shared = 0 /\ streak.streak_unique = 0

C16_WitnessTie ==
    /\ DeterministicCall
    /\ rarity_call.result.prob_shared = FloatHalf
    /\ rarity_call.result.returned = GOLD_SHARED

\* the call before the recorded one was made on a streak one pull shorter
AfterSharedPull ==
    /\ rarity_call.op = "decide_rarity"
    /\ rarity_call.before # <<>>
    /\ rarity_call.streak.streak_shared = rarity_call.before[1].streak.streak_shared + 1
    /\ rarity_call.streak.streak_unique = rarity_call.before[1].streak.streak_unique

AfterUniquePull ==
    /\ rarity_call.op = "decide_rarity"
    /\ rarity_call.before # <<>>
    /\ rarity_call.streak.streak_unique = rarity_call.before[1].streak.streak_unique + 1
    /\ rarity_call.streak.streak_shared = rarity_call.before[1].streak.streak_shared

\* prob_unique = 1 - prob_shared
ProbUnique(prob_shared) == FSub(FloatOne, prob_shared)

\* 0.40
Float040 == Decimal(40, 100)

SharedStreakOfThree ==
    /\ rarity_call.op = "decide_rarity"
    /\ game_state.cards = BalancedCards
    /\ config.base_shared_rate = 70
    /\ config.base_unique_rate = 30
    /\ rarity_call.streak.streak_shared = 3
    /\ rarity_call.streak.streak_unique = 0

C17_WitnessThree == SharedStreakOfThree /\ rarity_call.rng = None

EmptyCollectionCall ==
    /\ rarity_call.op = "decide_rarity"
    /\ game_state.cards = <<>>

\* C18: with an empty card collection compute_category_progression returns
\* 0.0 for every category, so decide_rarity has s_shared = s_unique = 0 and
\* gap = 0, its weights before the streak penalty are exactly the base
\* rates, and it returns a valid category.
C18_EmptyCollection ==
    EmptyCollectionCall =>
        /\ \A category \in {GOLD_SHARED, BLUE_SHARED, UNIQUE} :
               category_progression_float(game_state.cards, category) = FloatZero
        /\ rarity_call.result.s_shared = FloatZero
        /\ rarity_call.result.s_unique = FloatZero
        /\ rarity_call.result.gap.abs = FloatZero
        /\ rarity_call.result.w_shared = FloatRates(config).base_shared_rate
        /\ rarity_call.result.w_unique = FloatRates(config).base_unique_rate
        /\ rarity_call.result.returned \in {GOLD_SHARED, UNIQUE}

\* decide_rarity has been called on an empty collection with base rates
\* 0.70/0.30 and zero streaks, as the test does
C18_Witness ==
    /\ EmptyCollectionCall
    /\ config.base_shared_rate = 70
    /\ ZeroStreaks(rarity_call.streak)
    /\ rarity_call.rng # None
    /\ rarity_call.result.returned = GOLD_SHARED

----------------------------------------------------------------------------
(* update_rarity_streak and its input object *)

\* d[key] = value on the dict object d
SetItem(heap, d, key, value) == [heap EXCEPT ![d] = (key :> value) @@ @]

StreakMapFields == {"streak_per_color", "streak_per_hero"}

\* C19: update_rarity_streak leaves its input StreakState unchanged (both
\* counters and both maps), the returned state's streak_per_color and
\* streak_per_hero have the same contents as the input's, and a later change
\* to the returned state does not alter the input.
C19_UpdateIsPure ==
    streak_call.op = "update" =>
        LET before == streak_call.heap_before
            after == streak_call.heap
            passed == streak_call.streak_state
            returned == streak_call.returned
        IN /\ \A ref \in 1..Len(before) : after[ref] = before[ref]
           /\ StreakStateValue(after, passed) = streak_call.input
           /\ \A field \in StreakMapFields :
                  after[after[returned][field]] = streak_call.input[field]
           /\ StreakStateValue(after, returned) = streak_state
           /\ returned # passed
           /\ \A field \in StreakMapFields, key \in {"red", "blue"}, value \in 0..2 :
                  StreakStateValue(SetItem(after, after[returned][field], key, value), passed)
                      = streak_call.input

\* a state with entries in both maps has been updated
C19_Witness ==
    /\ streak_call.op = "update"
    /\ streak_call.input.streak_per_color # <<>>
    /\ streak_call.input.streak_per_hero # <<>>
    /\ streak_call.input.streak_shared > 0
    /\ streak_call.chosen = UNIQUE

----------------------------------------------------------------------------
(* The spend inside _execute_upgrade *)

\* C20: in every call of _execute_upgrade made by attempt_upgrades the ledger
\* spend succeeds, so the run never stops on the failed assertion, and no step
\* takes duplicates off a card without raising its level by one.
C20_SpendSucceeds ==
    /\ [](pc # "aborted")
    /\ [][/\ (pc = "upgrade" /\ ScanChoice(game_state, config, coin_ledger) # 0) =>
                LET card == Cards[ScanChoice(game_state, config, coin_ledger)]
                    coin_cost == CostTable(card).coin_costs[card.level]
                IN /\ spend(coin_ledger, coin_cost, card.id, game_state.day).success
                   /\ coin_ledger'.balance = Balance - coin_cost
          /\ \A i \in CardIdx :
                game_state'.cards[i].duplicates < Cards[i].duplicates =>
                    game_state'.cards[i].level = Cards[i].level + 1]_vars

\* an upgrade has just spent the whole balance and taken duplicates
C20_Witness ==
    /\ pc = "upgrade" /\ events # <<>>
    /\ Last(events).coins_spent > 0
    /\ Last(events).dupes_spent > 0
    /\ Balance = 0

----------------------------------------------------------------------------
(* can_upgrade_unique and the cards _can_upgrade hands to it *)

\* the first three checks of _can_upgrade pass for card i
PassesResourceChecks(i) ==
    /\ Cards[i].level < MaxLevelOf(Cards[i], config)
    /\ Cards[i].duplicates >= CostTable(Cards[i]).duplicate_costs[Cards[i].level]
    /\ Balance >= CostTable(Cards[i]).coin_costs[Cards[i].level]

\* C21: can_upgrade_unique called on a GOLD_SHARED or BLUE_SHARED card raises
\* ValueError and changes nothing; on a UNIQUE card it returns
\* card.level < max_unique_level(avg_shared_level, mapping); and no scan of
\* attempt_upgrades raises it, whatever the cards of the collection.
C21_GateArgument ==
    /\ [](gate_call.op = "can_upgrade_unique" =>
             IF gate_call.card.category \in {GOLD_SHARED, BLUE_SHARED}
             THEN gate_call.raised
             ELSE /\ ~gate_call.raised
                  /\ gate_call.returned =
                        (gate_call.card.level <
                            get_max_unique_level(gate_call.avg,
                                                 config.progression_mapping)))
    /\ [][gate_call'.op = "can_upgrade_unique" =>
             UNCHANGED <<runsVars, url_call, config, game_state, coin_ledger, streak_state>>]_vars
    /\ [](pc # "raised")
    /\ [](pc = "upgrade" =>
             /\ ~ScanRaises(game_state, config, coin_ledger)
             /\ \A i \in CardIdx :
                   ~can_upgrade_raises(i, game_state, config, coin_ledger))

\* attempt_upgrades is scanning a collection in which a shared card passes
\* the level, duplicate and coin checks
C21_Witness ==
    /\ pc = "upgrade"
    /\ \E i \in CardIdx :
          Cards[i].category # UNIQUE /\ PassesResourceChecks(i)

\* can_upgrade_unique has raised on a shared card
C21_WitnessRaised ==
    /\ gate_call.op = "can_upgrade_unique"
    /\ gate_call.card.category = BLUE_SHARED
    /\ gate_call.raised

\* can_upgrade_unique has refused a unique card at the ceiling
C21_WitnessGated ==
    /\ gate_call.op = "can_upgrade_unique"
    /\ gate_call.card.category = UNIQUE
    /\ ~gate_call.raised /\ ~gate_call.returned
    /\ gate_call.card.level =
          get_max_unique_level(gate_call.avg, config.progression_mapping)

----------------------------------------------------------------------------
(* The pull log *)

\* the records of the log made on the given day
RecordsOfDay(log, day) == SelectSeq(log, LAMBDA record : record.day = day)

\* C24: the pull log gets exactly one record per pull intent, appended in
\* processing order; within a day the pull_index values are 1, 2, ..., n
\* without gap or repeat, restarting at 1 on every new day, and a record's
\* day is the day on which the pull was processed.
C24_PullLog ==
    /\ [][pull_logger' # pull_logger =>
             /\ pc = "upgrade" /\ pc' = "pull"
             /\ Len(pull_logger') = Len(pull_logger) + 1
             /\ SubSeq(pull_logger', 1, Len(pull_logger)) = pull_logger
             /\ Last(pull_logger').day = game_state.day
             /\ Last(pull_logger').card_id = Cards[pull.card].id]_vars
    /\ [][(pc = "upgrade" /\ pc' = "pull") => pull_logger' # pull_logger]_vars
    /\ [](Len(RecordsOfDay(pull_logger, game_state.day)) =
             IF pc = "upgrade" THEN pull_index - 1 ELSE pull_index)
    /\ [](pc \in {"day", "done"} /\ game_state.day > 0 =>
             Len(RecordsOfDay(pull_logger, game_state.day)) = card_pulls)
    /\ [](\A k \in 1..Len(pull_logger) :
             /\ pull_logger[k].day \in 1..game_state.day
             /\ k > 1 => pull_logger[k - 1].day <= pull_logger[k].day
             /\ pull_logger[k].pull_index =
                   IF k > 1 /\ pull_logger[k - 1].day = pull_logger[k].day
                   THEN pull_logger[k - 1].pull_index + 1
                   ELSE 1)

\* two pulls are logged on day 1 and a third on day 2, numbered 1 again
C24_Witness ==
    /\ Len(pull_logger) = 3
    /\ pull_logger[1].day = 1 /\ pull_logger[2].day = 1
    /\ pull_logger[2].pull_index = 2
    /\ pull_logger[3].day = 2 /\ pull_logger[3].pull_index = 1

RECURSIVE DuplicatesSpentOn(_, _)
\* the duplicates the upgrade events in evs took off the card with this id
DuplicatesSpentOn(evs, card_id) ==
    IF evs = <<>> THEN 0
    ELSE (IF Head(evs).card_id = card_id THEN Head(evs).dupes_spent ELSE 0)
         + DuplicatesSpentOn(Tail(evs), card_id)

\* C25: every pull record's duplicates_total_after is what the pulled card
\* had banked just before the pull plus duplicates_received, whatever
\* upgrades fire after the pull.
C25_DuplicatesTotalAfter ==
    /\ [][(pc = "pull" /\ pc' = "upgrade") =>
             game_state'.cards[pull'.card].duplicates =
                Cards[pull'.card].duplicates + pull'.dupes]_vars
    /\ [][pull_logger' # pull_logger =>
             Last(pull_logger').duplicates_total_after =
                Cards[pull.card].duplicates
                + DuplicatesSpentOn(events, Cards[pull.card].id)]_vars

----------------------------------------------------------------------------
(* GameState.streak_state *)

\* C26: after every pull processed by run_simulation, game_state.streak_state
\* equals the StreakState that pull returned, the one fed to the next pull's
\* rarity decision.
C26_LiveStreakState ==
    pull # NoPull =>
        /\ streak_state = pull.updated_streak
        /\ game_state.streak_state = pull.updated_streak

----------------------------------------------------------------------------
(* Cards are kept and levels only rise *)

\* the level recorded for the card id in a snapshot's card_levels, 0 if absent
LevelIn(card_levels, id) ==
    IF \E entry \in card_levels : entry[1] = id
    THEN (CHOOSE entry \in card_levels : entry[1] = id)[2]
    ELSE 0

\* C27: during a run no card is removed from the collection and no card's
\* level decreases: for consecutive days d and d+1 every card id in
\* snapshot[d].card_levels is in snapshot[d+1].card_levels with a level at
\* least as high.
C27_CardsKept ==
    /\ [][\A i \in CardIdx :
             /\ i <= Len(game_state'.cards)
             /\ game_state'.cards[i].id = Cards[i].id
             /\ game_state'.cards[i].level >= Cards[i].level]_vars
    /\ [](\A d \in 1..(Len(daily_snapshots) - 1) :
             \A entry \in daily_snapshots[d].card_levels :
                 LevelIn(daily_snapshots[d + 1].card_levels, entry[1]) >= entry[2])

\* on day 2 a card unlocked that day is recorded beside a unique card that
\* was upgraded on day 1 and a card that was upgraded on day 2
C27_Witness ==
    /\ Len(daily_snapshots) = 2
    /\ LET first == daily_snapshots[1].card_levels
           second == daily_snapshots[2].card_levels
       IN /\ \E entry \in second : LevelIn(first, entry[1]) = 0
          /\ \E entry \in first : entry[1][1] = "hero" /\ entry[2] > 1
          /\ \E entry \in first : LevelIn(second, entry[1]) > entry[2]

----------------------------------------------------------------------------
(* Completion of a run *)

\* C28: a run that is not aborted completes all configured days: with a
\* finite pull list each day run_simulation terminates, and it returns
\* exactly num_days snapshots whose day fields are 1, 2, ..., num_days in
\* order (none when num_days is 0).
C28_Completes ==
    /\ <>(pc \in {"done", "aborted", "raised"})
    /\ [](pc = "done" =>
             /\ Len(daily_snapshots) = config.num_days
             /\ \A d \in 1..Len(daily_snapshots) : daily_snapshots[d].day = d)

\* a run of three days has returned, with pulls on its last day
C28_Witness ==
    /\ pc = "done"
    /\ config.num_days = 3
    /\ Len(daily_snapshots) = 3
    /\ pull_logger # <<>> /\ Last(pull_logger).day = 3

\* a run of no days has returned
C28_WitnessNoDays ==
    /\ pc = "done"
    /\ config.num_days = 0
    /\ daily_snapshots = <<>>
    /\ RunsIdle

\* C29: on every day d >= 1 of a run the pack counts in use are
\* schedule[(d-1) mod len(schedule)] (0-indexed), so day 1 uses the first
\* entry and day d the entry of day d - len(schedule); with an empty schedule
\* they are the empty map on every day
C29_PackSchedule ==
    game_state.day >= 1 =>
        LET schedule == config.daily_pack_schedule
            d == game_state.day
        IN IF schedule = <<>> THEN day_pack_counts = <<>>
           ELSE /\ day_pack_counts = schedule[((d - 1) % Len(schedule)) + 1]
                /\ d = 1 => day_pack_counts = schedule[1]
                /\ d > Len(schedule) =>
                      day_pack_counts =
                          get_day_pack_counts(config, d - Len(schedule))

\* the third day of a two-entry schedule is back at the first entry
C29_Witness ==
    /\ pc = "pull"
    /\ game_state.day = 3
    /\ Len(config.daily_pack_schedule) = 2
    /\ config.daily_pack_schedule[1] # config.daily_pack_schedule[2]
    /\ day_pack_counts = config.daily_pack_schedule[1]

\* a day of a run without a pack schedule
C29_WitnessEmpty ==
    /\ pc = "pull"
    /\ game_state.day = 2
    /\ config.daily_pack_schedule = <<>>
    /\ day_pack_counts = <<>>

-----------------------------------------------------------------------------
(* The resources an upgrade takes *)

\* C30 as stated: every scan of attempt_upgrades either ends the loop or
\* executes an upgrade after which the ledger balance or the upgraded card's
\* banked duplicates is strictly smaller
C30_ResourcesStrictlyDecrease ==
    [][pc = "upgrade" =>
          \/ pc' # "upgrade"
          \/ \E i \in CardIdx :
                /\ game_state'.cards[i].level = Cards[i].level + 1
                /\ \/ coin_ledger'.balance < Balance
                   \/ game_state'.cards[i].duplicates < Cards[i].duplicates]_vars

\* C30: every scan of attempt_upgrades either ends the loop or executes an
\* upgrade that takes coin_costs[level-1] off the balance and
\* duplicate_costs[level-1] off the upgraded card's duplicates, so neither
\* grows, and both stay unchanged only when both costs of the level are zero
C30_ResourcesDecrease ==
    [][pc = "upgrade" =>
          \/ pc' # "upgrade"
          \/ \E i \in CardIdx :
                LET coin_cost == CostTable(Cards[i]).coin_costs[Cards[i].level]
                    dupe_cost == CostTable(Cards[i]).duplicate_costs[Cards[i].level]
                IN /\ game_state'.cards[i].level = Cards[i].level + 1
                   /\ coin_ledger'.balance = Balance - coin_cost
                   /\ game_state'.cards[i].duplicates =
                         Cards[i].duplicates - dupe_cost
                   /\ coin_ledger'.balance <= Balance
                   /\ game_state'.cards[i].duplicates <= Cards[i].duplicates
                   /\ (/\ coin_ledger'.balance = Balance
                       /\ game_state'.cards[i].duplicates = Cards[i].duplicates)
                         <=> (coin_cost = 0 /\ dupe_cost = 0)]_vars

\* an upgrade of a zero-cost level has just left the balance and the card's
\* duplicates as they were
C30_Witness ==
    /\ pc = "upgrade" /\ events # <<>>
    /\ Last(events).coins_spent = 0
    /\ Last(events).dupes_spent = 0
    /\ Last(events).new_level = Last(events).old_level + 1

\* an upgrade has just taken duplicates and no coins
C30_WitnessDuplicatesOnly ==
    /\ pc = "upgrade" /\ events # <<>>
    /\ Last(events).coins_spent = 0
    /\ Last(events).dupes_spent > 0

-----------------------------------------------------------------------------
(* Two calls of run_simulation on one SimConfig *)

Entered(r) == run_frames # <<>> /\ run_frames[r].pc # "entry"
Returned(r) == run_frames # <<>> /\ run_frames[r].pc = "done"
ViewOf(r) == RunView(run_heap, run_frames[r])
ResultOf(r) == SimResult(run_heap, run_frames[r])

RECURSIVE RunAlone(_, _, _)
\* a call of run_simulation that is the only one, after n steps
RunAlone(cfg, script, n) ==
    IF n = 0 THEN run_simulation_enter(<<>>, cfg)
    ELSE Then(RunAlone(cfg, script, n - 1), LAMBDA before :
              run_simulation_step(before.heap, before.frame, cfg, script))

\* the objects call r holds references to
ObjectsOf(r) ==
    {run_frames[r].game_state, run_frames[r].coin_ledger, run_frames[r].pull_logger}

\* C23: each call of run_simulation has its own GameState, CoinLedger,
\* StreakState and PullLogger and no step writes the SimConfig, so with two
\* calls on one SimConfig interleaved in any order every call is, after each
\* of its steps, in the state it is in when it runs alone, and returns the
\* result it returns alone
C23_Isolated ==
    /\ [](\A r \in RunIds : Entered(r) =>
            \E alone \in {RunAlone(config, run_draws[r], run_frames[r].steps)} :
               /\ ViewOf(r) = RunView(alone.heap, alone.frame)
               /\ Returned(r) => ResultOf(r) = SimResult(alone.heap, alone.frame))
    /\ [](\A r1 \in RunIds, r2 \in RunIds :
            (Entered(r1) /\ Entered(r2) /\ r1 # r2) =>
                ObjectsOf(r1) \cap ObjectsOf(r2) = {})
    /\ [][config' = config]_vars

\* call 1 has returned its pulls and upgrades while call 2, dealt other
\* pulls, is in the middle of a day
C23_Witness ==
    /\ Returned(1)
    /\ Entered(2) /\ run_frames[2].pc = "upgrade"
    /\ run_draws[1] # run_draws[2]
    /\ ResultOf(1).pull_logs # <<>>
    /\ DOMAIN ResultOf(1).total_upgrades # {}
    /\ run_heap[run_frames[2].pull_logger] # <<>>

-----------------------------------------------------------------------------
(* Coin conservation *)

total_coins_earned == TotalOf(coin_ledger.transactions, "income")
total_coins_spent == TotalOf(coin_ledger.transactions, "spend")

\* C33: a ledger is created without transactions, and no add_income or spend
\* changes balance - (sum of income amounts) + (sum of spend amounts), which is
\* therefore the balance B0 the ledger was created with; in run_simulation
\* that is config.initial_coins, so the final balance is
\* initial_coins + total_coins_earned - total_coins_spent
C33_CoinConservation ==
    /\ [][LET earned_after == TotalOf(coin_ledger'.transactions, "income")
              spent_after == TotalOf(coin_ledger'.transactions, "spend")
          IN coin_ledger'.balance - earned_after + spent_after
                = Balance - total_coins_earned + total_coins_spent]_vars
    /\ []((pc = "harness" /\ ledger_call = NoCall) =>
             coin_ledger.transactions = <<>>)
    /\ []((pc = "day" /\ game_state.day = 0) =>
             (coin_ledger.transactions = <<>> /\ Balance = config.initial_coins))
    /\ [](pc # "harness" =>
             Balance = config.initial_coins + total_coins_earned - total_coins_spent)

\* a run that started with coins, earned and spent some, has returned
C33_Witness ==
    /\ pc = "done"
    /\ config.initial_coins > 0
    /\ total_coins_earned > 0
    /\ total_coins_spent > 0

\* the ledger API: a ledger created with a balance has taken an income and a
\* spend
C33_WitnessLedger ==
    /\ pc = "harness"
    /\ Len(coin_ledger.transactions) = 2
    /\ total_coins_earned > 0 /\ total_coins_spent > 0
    /\ Balance - total_coins_earned + total_coins_spent > 0

-----------------------------------------------------------------------------
(* Levels and upgrade events *)

RECURSIVE LoggedUpgrades(_)
\* the upgrades of the pull records, in order
LoggedUpgrades(log) ==
    IF log = <<>> THEN <<>>
    ELSE log[1].upgrades \o LoggedUpgrades(Tail(log))

\* every UpgradeEvent emitted so far in the run: those of the logged pulls,
\* then those of the attempt_upgrades call that has not returned
EmittedEvents ==
    LoggedUpgrades(pull_logger)
        \o (IF pc \in {"upgrade", "aborted", "raised"} THEN events ELSE <<>>)

EventsOfCard(evs, card_id) == SelectSeq(evs, LAMBDA e : e.card_id = card_id)

\* C34: at every point of a run each card's level is 1 plus the number of
\* UpgradeEvents emitted so far for its id, the events of one card go from
\* level to level without a gap (each old_level is the previous new_level,
\* the first is 1), and at the return total_upgrades has exactly the upgraded
\* cards, each with final level - 1
C34_LevelsCountUpgrades ==
    /\ \A i \in CardIdx :
          \E card_events \in {EventsOfCard(EmittedEvents, Cards[i].id)} :
             /\ Cards[i].level = 1 + Len(card_events)
             /\ \A k \in 1..Len(card_events) :
                   /\ card_events[k].new_level = card_events[k].old_level + 1
                   /\ card_events[k].old_level =
                         IF k = 1 THEN 1 ELSE card_events[k - 1].new_level
    /\ pc = "done" =>
          \E total_upgrades \in {TotalUpgrades(daily_snapshots)} :
             /\ DOMAIN total_upgrades = {Cards[i].id : i \in {j \in CardIdx : Cards[j].level > 1}}
             /\ \A i \in CardIdx :
                   Cards[i].level > 1 => total_upgrades[Cards[i].id] = Cards[i].level - 1

\* the run has returned with one card upgraded twice and another once
C34_Witness ==
    /\ pc = "done"
    /\ \E i \in CardIdx, j \in CardIdx :
          /\ Cards[i].level = 3
          /\ Cards[j].level = 2
          /\ TotalUpgrades(daily_snapshots)[Cards[i].id] = 2

-----------------------------------------------------------------------------
(* What the coins are spent on *)

\* the 'spend' transactions of the ledger, in order
SpendTransactions ==
    SelectSeq(coin_ledger.transactions, LAMBDA t : t.source = "spend")

\* C35: in a run the ledger's 'spend' transactions are, in order, the
\* UpgradeEvents emitted so far: as many, the k-th with the card_id and the day
\* of the k-th event and its coins_spent as amount; so total_coins_spent is
\* the sum of coins_spent over the upgrade events
C35_SpendsAreUpgrades ==
    \E spends \in {SpendTransactions}, emitted \in {EmittedEvents} :
        /\ Len(spends) = Len(emitted)
        /\ \A k \in 1..Len(spends) :
              /\ spends[k].card_id = emitted[k].card_id
              /\ spends[k].amount = emitted[k].coins_spent
              /\ spends[k].day = emitted[k].day
        /\ total_coins_spent =
              SumSeq([k \in 1..Len(emitted) |-> emitted[k].coins_spent])

\* two upgrades of different cards have been paid for, with an income
\* recorded between the two spends
C35_Witness ==
    /\ Len(SpendTransactions) >= 2
    /\ SpendTransactions[1].card_id # SpendTransactions[2].card_id
    /\ SpendTransactions[1].amount > 0
    /\ SpendTransactions[2].amount > 0
    /\ \E k \in 2..Len(coin_ledger.transactions) :
          /\ coin_ledger.transactions[k].source = "income"
          /\ coin_ledger.transactions[k - 1].source = "spend"

-----------------------------------------------------------------------------
(* Card ids *)

\* the ids of the UNIQUE cards, in collection order
UniqueIds ==
    [k \in 1..UniqueCount |-> Cards[Filter(Cards, UNIQUE)[k]].id]

\* C36: in every state of a run the card ids are pairwise distinct and the
\* UNIQUE cards are hero_1..hero_n in this order for the current unique count
\* n; no step changes the id of a card or removes one; and each snapshot's
\* card_levels has one entry per card of its day
C36_CardIds ==
    /\ [](/\ \A i \in CardIdx, j \in CardIdx : Cards[i].id = Cards[j].id => i = j
          /\ UniqueIds = [k \in 1..UniqueCount |-> <<"hero", k>>])
    /\ [][/\ Len(game_state'.cards) >= Len(Cards)
          /\ \A i \in CardIdx : game_state'.cards[i].id = Cards[i].id]_vars
    /\ [](\A d \in 1..Len(daily_snapshots) :
             LET card_levels == daily_snapshots[d].card_levels
             IN /\ \A p \in card_levels, q \in card_levels : p[1] = q[1] => p = q
                /\ Cardinality(card_levels) =
                      config.num_gold_cards + config.num_blue_cards + ScheduledBy(d)
                /\ {p[1] : p \in card_levels} \subseteq {Cards[i].id : i \in CardIdx})

\* a second unlock day has added hero_2 after hero_1 was upgraded, and the
\* day's snapshot lists both
C36_Witness ==
    /\ Len(daily_snapshots) = 2
    /\ UniqueCount = 2
    /\ Cardinality(daily_snapshots[1].card_levels) + 1
          = Cardinality(daily_snapshots[2].card_levels)
    /\ \E level \in 2..3 : <<<<"hero", 1>>, level>> \in daily_snapshots[1].card_levels
    /\ \E level \in 1..3 : <<<<"hero", 2>>, level>> \in daily_snapshots[2].card_levels

-----------------------------------------------------------------------------
(* Upgrades and the pulls they belong to *)

\* the upgrade events in the pull records of day d, in pull order
UpgradesLoggedOn(d) == LoggedUpgrades(RecordsOfDay(pull_logger, d))

\* C37: upgrades happen only inside a pull. The upgrade events in the pull
\* records of day d all carry day d, none appears twice, and in pull order
\* they are snapshot[d].upgrades_today; a step outside the upgrade loop of a
\* pull changes no level, so a day without pulls has no upgrade events; and
\* once a day with at least one pull has ended no card is eligible
C37_UpgradesInsidePulls ==
    /\ [](\A d \in 1..Len(daily_snapshots) :
             \E logged \in {UpgradesLoggedOn(d)} :
                /\ daily_snapshots[d].upgrades_today = logged
                /\ \A k \in 1..Len(logged) : logged[k].day = d
                /\ \A k \in 1..Len(logged), m \in 1..Len(logged) :
                      logged[k] = logged[m] => k = m
                /\ RecordsOfDay(pull_logger, d) = <<>> => logged = <<>>)
    /\ [](\A k \in 1..Len(EmittedEvents) :
             \E record \in 1..(Len(pull_logger) + 1) :
                IF record <= Len(pull_logger)
                THEN /\ pull_logger[record].day = EmittedEvents[k].day
                     /\ \E m \in 1..Len(pull_logger[record].upgrades) :
                           pull_logger[record].upgrades[m] = EmittedEvents[k]
                ELSE /\ pc \in {"upgrade", "aborted", "raised"}
                     /\ EmittedEvents[k].day = game_state.day
                     /\ \E m \in 1..Len(events) : events[m] = EmittedEvents[k])
    /\ [][(\E i \in CardIdx : game_state'.cards[i].level # Cards[i].level) =>
             (pc = "upgrade" /\ pull_index >= 1)]_vars
    /\ []((pc \in {"day", "done"} /\ game_state.day >= 1 /\ card_pulls >= 1) =>
             \A i \in CardIdx : ~Eligible(i))

\* a day of two pulls, each followed by upgrades, has its snapshot
C37_Witness ==
    /\ pc \in {"day", "done"}
    /\ Len(daily_snapshots) >= 1
    /\ \E d \in 1..Len(daily_snapshots) :
          /\ Len(RecordsOfDay(pull_logger, d)) = 2
          /\ RecordsOfDay(pull_logger, d)[1].upgrades # <<>>
          /\ RecordsOfDay(pull_logger, d)[2].upgrades # <<>>
          /\ Len(daily_snapshots[d].upgrades_today) >= 2

\* a day without pulls has ended with an eligible card and no upgrade
C37_WitnessNoPulls ==
    /\ pc = "day"
    /\ game_state.day >= 1
    /\ card_pulls = 0
    /\ Len(daily_snapshots) = game_state.day
    /\ Last(daily_snapshots).upgrades_today = <<>>
    /\ \E i \in CardIdx : Eligible(i)

-----------------------------------------------------------------------------
(* The shareable configuration string *)

StageExceptions ==
    {"UnicodeEncodeError", "binascii.Error", "BadGzipFile", "EOFError", "zlib.error",
     "UnicodeDecodeError", "ValidationError"}
\* every field of SimConfig has a value of its type
IsSimConfig(cfg) ==
    /\ DOMAIN cfg = SimConfigFields
    /\ cfg.num_days \in Nat
    /\ cfg.initial_coins \in Nat
    /\ \A day \in DOMAIN cfg.unique_unlock_schedule :
          day \in Nat /\ cfg.unique_unlock_schedule[day] \in Nat

C32_WitnessEmpty ==
    /\ url_call.op = "decode_config"
    /\ url_call.encoded = <<>>
    /\ IsRaised(url_call.outcome)
    /\ url_call.outcome.cause = "ValidationError"

\* a replaced character of the gzip header has gone undetected
C32_WitnessUndetected ==
    /\ url_call.op = "decode_config"
    /\ url_call.kind = "substituted"
    /\ url_call.encoded # url_call.original
    /\ url_call.outcome = Value(config)

====
